---- MODULE Spec2Model ----
(***************************************************************************)
(* The scroll-driven animation state machine of AnimeHelper                *)
(* (src/AnimeHelper.js, first class): observe(), the shared scroll/resize  *)
(* handlers, the animation-frame callback, _updateScrollAnimations and     *)
(* _calculateScrollBounds.                                                 *)
(*                                                                         *)
(* JavaScript numbers are modelled as exact rationals [n, d] (d > 0) with  *)
(* NaN = 0/0 and +-Infinity = +-1/0; floating-point rounding is not        *)
(* modelled.  JavaScript strings are sequences of one-character strings,  *)
(* so that split, startsWith, substring and parseFloat are computed.       *)
(***************************************************************************)
EXTENDS Integers, Sequences, FiniteSets, TLC

\* ------------------------------------------------------------------ bounds

\* Longest recorded run of evaluations in the monotone-scroll scenario.
MaxEvals == 5

\* Most pin spacers observe() is let to wrap around one element.
MaxSpacers == 2

\* The count of _handleScroll calls since the last frame saturates here.
MaxPending == 2

\* Animation instances the engine creates in the helper scenario.
MaxHandles == 3

\* Most entries observe() is let to put on the sync queue, and most
\* applySyncs() calls.
MaxQueue == 2

MaxApplies == 2

\* ------------------------------------------------------- JavaScript numbers

Abs(i) == IF i < 0 THEN -i ELSE i

Sign(i) == IF i < 0 THEN -1 ELSE IF i > 0 THEN 1 ELSE 0

RECURSIVE Gcd(_, _)
Gcd(a, b) == IF b = 0 THEN a ELSE Gcd(b, a % b)

\* The number n/d in lowest terms; d = 0 gives NaN (n = 0) or +-Infinity.
Q(n, d) ==
  IF d = 0 THEN [n |-> Sign(n), d |-> 0]
  ELSE LET g == Gcd(Abs(n), Abs(d))
       IN  [n |-> (Sign(d) * n) \div g, d |-> Abs(d) \div g]

N(i) == [n |-> i, d |-> 1]

NaN == [n |-> 0, d |-> 0]

IsNaN(x) == x.d = 0 /\ x.n = 0

\* x + y, x - y, x * y, x / y of JavaScript (IEEE 754 special values).
Add(x, y) ==
  IF IsNaN(x) \/ IsNaN(y) THEN NaN
  ELSE IF x.d = 0 /\ y.d = 0 THEN (IF x.n = y.n THEN x ELSE NaN)
  ELSE IF x.d = 0 THEN x
  ELSE IF y.d = 0 THEN y
  ELSE Q(x.n * y.d + y.n * x.d, x.d * y.d)

Neg(x) == [n |-> -x.n, d |-> x.d]

Sub(x, y) == Add(x, Neg(y))

Mul(x, y) ==
  IF IsNaN(x) \/ IsNaN(y) THEN NaN
  ELSE Q(x.n * y.n, x.d * y.d)

Div(x, y) ==
  IF IsNaN(x) \/ IsNaN(y) THEN NaN
  ELSE IF x.d = 0 /\ y.d = 0 THEN NaN
  ELSE IF y.d = 0 THEN N(0)
  ELSE IF y.n = 0 THEN Q(x.n, 0)
  ELSE Q(x.n * y.d * Sign(y.n), x.d * Abs(y.n))

\* x < y, x <= y, x > y, x >= y, x === y: every comparison with NaN is false.
Lt(x, y) ==
  /\ ~IsNaN(x) /\ ~IsNaN(y) /\ x # y
  /\ IF x.d = 0 /\ y.d = 0 THEN x.n < y.n ELSE x.n * y.d < y.n * x.d

Eq(x, y) == ~IsNaN(x) /\ ~IsNaN(y) /\ x = y

Le(x, y) == Lt(x, y) \/ Eq(x, y)

Gt(x, y) == Lt(y, x)

Ge(x, y) == Le(y, x)

\* Math.min(x, y), Math.max(x, y): NaN if either argument is NaN.
MathMin(x, y) == IF IsNaN(x) \/ IsNaN(y) THEN NaN ELSE IF Lt(y, x) THEN y ELSE x

MathMax(x, y) == IF IsNaN(x) \/ IsNaN(y) THEN NaN ELSE IF Lt(x, y) THEN y ELSE x

\* ------------------------------------------------- other JavaScript values

\* undefined; a string is [str |-> <<characters>>]; a number is [n, d].
Undefined == [undef |-> TRUE]

Str(chars) == [str |-> chars]

IsString(v) == "str" \in DOMAIN v

IsNumber(v) == "n" \in DOMAIN v

\* Truthiness: undefined, "", 0 and NaN are falsy.
Truthy(v) ==
  IF v = Undefined THEN FALSE
  ELSE IF IsString(v) THEN v.str # <<>>
  ELSE IF IsNumber(v) THEN ~IsNaN(v) /\ v # N(0)
  ELSE TRUE

\* a || b
OrElse(a, b) == IF Truthy(a) THEN a ELSE b

\* ------------------------------------------------------ JavaScript strings

SP == " "

DigitChars == <<"0", "1", "2", "3", "4", "5", "6", "7", "8", "9">>

IsDigit(c) == \E i \in 1..Len(DigitChars) : DigitChars[i] = c

DigitVal(c) == (CHOOSE i \in 1..Len(DigitChars) : DigitChars[i] = c) - 1

\* s.startsWith(p), s.substring(k), s.includes(c) for a one-character c.
StartsWith(s, p) == Len(s) >= Len(p) /\ SubSeq(s, 1, Len(p)) = p

Substring(s, k) == SubSeq(s, k + 1, Len(s))

Includes(s, c) == \E i \in 1..Len(s) : s[i] = c

\* s.split(" "): the maximal space-free pieces, empty pieces included.
RECURSIVE SplitFrom(_, _, _)
SplitFrom(s, i, cur) ==
  IF i > Len(s) THEN <<cur>>
  ELSE IF s[i] = SP THEN <<cur>> \o SplitFrom(s, i + 1, <<>>)
  ELSE SplitFrom(s, i + 1, Append(cur, s[i]))

Split(s) == SplitFrom(s, 1, <<>>)

\* a[i] of a JavaScript array of strings (0-based): undefined past the end.
At(arr, i) == IF i + 1 <= Len(arr) THEN Str(arr[i + 1]) ELSE Undefined

\* The digits of s from position i on: <<value, count>>.
RECURSIVE DigitsFrom(_, _, _, _)
DigitsFrom(s, i, acc, cnt) ==
  IF i <= Len(s) /\ IsDigit(s[i])
  THEN DigitsFrom(s, i + 1, acc * 10 + DigitVal(s[i]), cnt + 1)
  ELSE <<acc, cnt>>

RECURSIVE Pow10(_)
Pow10(k) == IF k = 0 THEN 1 ELSE 10 * Pow10(k - 1)

RECURSIVE SkipSpaces(_, _)
SkipSpaces(s, i) == IF i <= Len(s) /\ s[i] = SP THEN SkipSpaces(s, i + 1) ELSE i

\* parseFloat(v): v is converted to a string first (undefined gives NaN);
\* leading spaces, an optional sign, digits and an optional fraction are
\* read and anything after them is ignored.  Exponents and the literal
\* "Infinity" are not modelled.
\* The value of integer digits ip = <<value, count>> and fraction digits fp.
Magnitude(ip, fp) ==
  IF ip[2] = 0 /\ fp[2] = 0 THEN NaN
  ELSE Q(ip[1] * Pow10(fp[2]) + fp[1], Pow10(fp[2]))

\* The fraction after the integer digits that end before position i2.
ParseFraction(s, i2, ip) ==
  Magnitude(ip, IF i2 <= Len(s) /\ s[i2] = "."
                THEN DigitsFrom(s, i2 + 1, 0, 0) ELSE <<0, 0>>)

\* The unsigned number that starts at position i1.
ParseIntPart(s, i1, ip) == ParseFraction(s, i1 + ip[2], ip)

ParseUnsigned(s, i1) == ParseIntPart(s, i1, DigitsFrom(s, i1, 0, 0))

\* The signed number that starts at position i0.
ParseSigned(s, i0) ==
  IF i0 <= Len(s) /\ s[i0] = "-" THEN Neg(ParseUnsigned(s, i0 + 1))
  ELSE IF i0 <= Len(s) /\ s[i0] = "+" THEN ParseUnsigned(s, i0 + 1)
  ELSE ParseUnsigned(s, i0)

ParseFloat(v) ==
  IF IsNumber(v) THEN v
  ELSE IF ~IsString(v) THEN NaN
  ELSE ParseSigned(v.str, SkipSpaces(v.str, 1))

\* ------------------------------------------------------------ the inputs

Elements == {"e1", "e2"}

\* Scroll positions the window can be at, and viewport heights.
ScrollYs == {N(0), N(50), N(100), N(200), N(300), N(400)}

ViewportHeights == {N(200), N(400)}

\* Natural (in-flow) box of each element: document-relative top, height,
\* left and width.
Layouts ==
  { [e1 |-> [top |-> N(100), height |-> N(200), left |-> N(0), width |-> N(300)],
     e2 |-> [top |-> N(0), height |-> N(200), left |-> N(10), width |-> N(300)]] }

W_top == <<"t", "o", "p">>

W_center == <<"c", "e", "n", "t", "e", "r">>

W_bottom == <<"b", "o", "t", "t", "o", "m">>

W_play == <<"p", "l", "a", "y">>

W_pause == <<"p", "a", "u", "s", "e">>

W_reverse == <<"r", "e", "v", "e", "r", "s", "e">>

W_restart == <<"r", "e", "s", "t", "a", "r", "t">>

W_none == <<"n", "o", "n", "e">>

Words(ws) == [str |-> ws[1] \o <<SP>> \o ws[2]]

RECURSIVE JoinWords(_)
JoinWords(ws) ==
  IF Len(ws) = 0 THEN <<>>
  ELSE IF Len(ws) = 1 THEN ws[1]
  ELSE ws[1] \o <<SP>> \o JoinWords(Tail(ws))

\* The scrollTrigger objects callers pass; every one carries the four
\* callbacks onEnter, onLeave, onEnterBack and onLeaveBack.
Trigger(start, end, pin, scrub, toggleActions) ==
  [start |-> start, end |-> end, pin |-> pin, scrub |-> scrub,
   toggleActions |-> toggleActions]

TriggerConfigs ==
  { Trigger(Undefined, Undefined, FALSE, FALSE,
            Str(JoinWords(<<W_play, W_reverse, W_pause, W_restart>>))),
    Trigger(Words(<<W_top, W_top>>), Words(<<W_bottom, W_top>>), FALSE, FALSE,
            Undefined),
    Trigger(Words(<<W_top, W_top>>), Words(<<W_top, W_top>>), FALSE, TRUE, Undefined),
    Trigger(Words(<<W_bottom, W_top>>), Words(<<W_top, W_top>>), FALSE, TRUE, Undefined),
    Trigger(Words(<<W_center, W_center>>), Str(<<"+", "=", "2", "0", "0">>),
            FALSE, TRUE, Str(JoinWords(<<W_play, W_none>>))),
    Trigger(Words(<<W_top, <<"5", "0", "%">>>>), Str(<<"+", "=", "5", "0", "%">>),
            FALSE, FALSE, Undefined),
    Trigger(Words(<<W_top, W_top>>), Str(<<"+", "=", "2", "0", "0">>),
            TRUE, TRUE, Undefined) }

\* The configs passed to observe(): with or without a scrollTrigger.
Configs ==
  { [scrollTrigger |-> t] : t \in TriggerConfigs \cup {Undefined} }

\* The element lists the targets given to observe() resolve to
\* (_getElements): no element, or the element e1.
Targets == { << >>, <<"e1">> }

\* Duration of the timeline the animation engine builds for an element.
Duration == N(1000)

\* The methods of an animation handle (external engine).
HandleMethods ==
  { W_play, W_pause, W_restart, W_reverse, <<"s", "e", "e", "k">> }

\* ---------------------------------------------------------------- the state

VARIABLES
  scrollY,      \* window.scrollY
  innerHeight,  \* window.innerHeight
  layout,       \* natural box of each element
  dom,          \* inline style and pin spacers of each element
  elementMap,   \* this.elementMap: element -> data, Undefined when absent
  mapOrder,     \* iteration (insertion) order of this.elementMap
  isTicking,    \* this.isTicking
  rafQueue,     \* number of frame callbacks requested and not yet run
  listening,    \* the window listeners of the instance are attached
  registered,   \* the instance is in AnimeHelper._instances
  ev,           \* history: what the last evaluation of each element did
  trace,        \* history: the evaluations of the monotone-scroll scenario
  made,         \* history: the inline style of each element at each
                \* _createPinSpacer call made for it
  pending,      \* history: number of _handleScroll calls since the last frame
                \* callback ran (saturating at MaxPending)
  peer,         \* a second AnimeHelper instance: whether it is in
                \* AnimeHelper._instances, whether its window listeners are
                \* attached, and the elements in its elementMap
  controls,     \* history: the last pauseAll / playAll / restartAll call and
                \* the animation handles it reached
  instances,    \* AnimeHelper._instances of the engine-wrapping helper class
                \* (line 1035): selector -> animation instance
  pinStyle,     \* the inline style _createPin gave to each track element
  last,         \* history: the last observe() call on the engine-wrapping
                \* helper, what it passed to the engine and what it returned
  syncQueue,    \* AnimeHelper._syncQueue (line 1036)
  syncLog,      \* history: the number of applySyncs() calls, what the last
                \* one did for each entry, and whether observe() was called
                \* since
  timelines     \* the registered instances the engine made with
                \* createTimeline, which have a sync method (its animations
                \* have none)

vars ==
  <<scrollY, innerHeight, layout, dom, elementMap, mapOrder, isTicking, rafQueue,
    listening, registered, ev, trace, made, pending, peer, controls,
    instances, pinStyle, last,
                 syncQueue, syncLog, timelines>>

NoEval == [none |-> TRUE]

\* The selectors passed to the engine-wrapping helper; the state of its
\* registry, of the track elements and of the call history before any
\* observe().
Selectors == {"box", "missing"}

NoInstances == [name \in Selectors |-> Undefined]

NoPinStyle == [name \in Selectors |-> Undefined]

NoCall == [serial |-> 0]

NoSyncs == [serial |-> 0, calls |-> << >>, fresh |-> FALSE]

\* No second instance has been constructed.
NoPeer == [registered |-> FALSE, listening |-> FALSE, elements |-> {}]

\* ------------------------------------------------------------- the DOM

\* Inline style values: a keyword or length such as "absolute", "0", "100%",
\* "" (not set), or a pixel length `${n}px`.
Css(word) == [css |-> word]

Px(n) == [px |-> n]

\* The inline styles an element can carry before it is observed.
InitialStyles ==
  { [position |-> Css(pos), top |-> Css(""), left |-> Css(""),
     width |-> Css(""), margin |-> Css("")] : pos \in {"", "relative"} }

\* dom[el] is [style, spacers]: the element's inline style and the pin
\* spacers wrapped around it, outermost first (the element is a child of the
\* last one).  A spacer is [width, height].
NoSpacers == << >>

\* getBoundingClientRect() of a box in normal flow with the window at sY.
BoundingRect(box, sY) ==
  [top |-> Sub(box.top, sY), height |-> box.height,
   bottom |-> Sub(Add(box.top, box.height), sY),
   left |-> box.left, width |-> box.width]

\* The offset a top/left style value stands for.
Offset(v) == IF "px" \in DOMAIN v THEN v.px ELSE N(0)

\* The box an element with natural box `box` has under inline style
\* `style`: its natural box while it is in flow; the box at its top/left
\* inside its spacer (which sits where the element sat) while it is
\* absolutely positioned; the viewport box its top/left/width give while it
\* is fixed.
StyledBox(box, style, sY) ==
  IF style.position = Css("fixed")
  THEN [top |-> Add(Offset(style.top), sY), height |-> box.height,
        left |-> Offset(style.left),
        width |-> IF "px" \in DOMAIN style.width THEN style.width.px ELSE box.width]
  ELSE IF style.position = Css("absolute")
  THEN [top |-> Add(box.top, Offset(style.top)), height |-> box.height,
        left |-> Add(box.left, Offset(style.left)), width |-> box.width]
  ELSE box

\* el.getBoundingClientRect().
ElementRect(box, style, sY) == BoundingRect(StyledBox(box, style, sY), sY)

\* pinSpacer.getBoundingClientRect(): the spacer sits where the element sat
\* and has the width and height its inline style gives it.
SpacerRect(box, spacer, sY) ==
  BoundingRect([top |-> box.top, height |-> spacer.height,
                left |-> box.left, width |-> spacer.width], sY)

\* The styles _createPinSpacer and _updatePinSpacer assign to the element
\* (lines 747-753 and 766-771); margin is given only by the former.
AbsoluteStyle(margin) ==
  [position |-> Css("absolute"), top |-> Css("0"), left |-> Css("0"),
   width |-> Css("100%"), margin |-> margin]

\* _createPinSpacer(el, data) given rect = el.getBoundingClientRect():
\* <<data', dom[el]'>> (lines 718-754).
CreateSpacerFrom(data, domEl, rect) ==
  << [data EXCEPT
        !.scroll.originalStyles = domEl.style,
        !.scroll.pinSpacer = [id |-> Len(domEl.spacers) + 1],
        !.scroll.pinLeft = rect.left,
        !.scroll.pinWidth = rect.width],
     [style |-> AbsoluteStyle(Css("0")),
      spacers |-> Append(domEl.spacers,
                         [width |-> rect.width, height |-> rect.height])] >>

CreatePinSpacer(box, data, domEl, sY) ==
  CreateSpacerFrom(data, domEl, ElementRect(box, domEl.style, sY))

\* Mutant of UpdatePinSpacer: the spacer keeps the height it has.
UpdatePinSpacerKeepsHeight(box, data, domEl, sY) ==
  [style |-> AbsoluteStyle(data.scroll.originalStyles.margin),
   spacers |-> domEl.spacers]

\* _updatePinSpacer(el, data): dom[el]' (lines 762-772).  The rect is
\* measured with the original styles assigned back.
UpdatePinSpacer(box, data, domEl, sY) ==
  [style |-> AbsoluteStyle(data.scroll.originalStyles.margin),
   spacers |-> [domEl.spacers EXCEPT
                  ![data.scroll.pinSpacer.id].height =
                    ElementRect(box, data.scroll.originalStyles, sY).height]]

\* ------------------------------------------------- _calculateScrollBounds

\* The offset of a viewport edge (lines 472-479 and 502-509).
VpOffset(vpEdge, wh) ==
  IF vpEdge = Str(W_top) THEN N(0)
  ELSE IF vpEdge = Str(W_center) THEN Div(wh, N(2))
  ELSE IF vpEdge = Str(W_bottom) THEN wh
  ELSE Mul(Div(ParseFloat(vpEdge), N(100)), wh)

\* elOffset (lines 464-471).
ElOffset(elEdge, elRect, sY) ==
  IF elEdge = Str(W_top) THEN Add(elRect.top, sY)
  ELSE IF elEdge = Str(W_center)
    THEN Add(Add(elRect.top, sY), Div(elRect.height, N(2)))
  ELSE IF elEdge = Str(W_bottom) THEN Add(elRect.bottom, sY)
  ELSE Add(Add(elRect.top, sY),
           Mul(Div(ParseFloat(elEdge), N(100)), elRect.height))

\* parsePos(posStr, elRect) with the scrollY and wh it closes over
\* (lines 462-481); parts = posStr.split(" ").
ParseEdges(parts, elRect, sY, wh) ==
  Sub(ElOffset(At(parts, 0), elRect, sY), VpOffset(At(parts, 1), wh))

ParsePos(posStr, elRect, sY, wh) == ParseEdges(Split(posStr.str), elRect, sY, wh)

DefaultStart == Str(W_top \o <<SP>> \o W_bottom)

DefaultEnd == Str(W_bottom \o <<SP>> \o W_top)

\* data.scroll.start (line 482).
CalcStart(config, rect, sY, wh) ==
  ParsePos(OrElse(config.start, DefaultStart), rect, sY, wh)

\* Mutant of RelativeOffset: a percentage is read as pixels.
RelativeOffsetNoPercent(endStr, rest, wh) == ParseFloat(rest)

\* The offset of a relative end "+=..." (lines 489-492); rest is
\* config.end.substring(2).
RelativeOffset(endStr, rest, wh) ==
  IF Includes(endStr, "%") THEN Mul(Div(ParseFloat(rest), N(100)), wh)
  ELSE ParseFloat(rest)

\* data.scroll.end (lines 484-496), given the start just computed.
CalcEnd(config, start, rect, sY, wh) ==
  IF Truthy(config.end) /\ IsString(config.end)
     /\ StartsWith(config.end.str, <<"+", "=">>)
  THEN Add(start, RelativeOffset(config.end.str,
                                 Str(Substring(config.end.str, 2)), wh))
  ELSE ParsePos(OrElse(config.end, DefaultEnd), rect, sY, wh)

\* elEdgeOffset (lines 510-517).
ElEdgeOffset(startElEdge, rect) ==
  IF startElEdge = Str(W_top) THEN N(0)
  ELSE IF startElEdge = Str(W_center) THEN Div(rect.height, N(2))
  ELSE IF startElEdge = Str(W_bottom) THEN rect.height
  ELSE Mul(Div(ParseFloat(startElEdge), N(100)), rect.height)

\* data.scroll.pinTop (lines 499-518); parts is the split start spec.
PinTopOf(parts, rect, wh) ==
  Sub(VpOffset(At(parts, 1), wh), ElEdgeOffset(At(parts, 0), rect))

\* Mutant of StoreBounds: the spacer keeps the height it has.
StoreBoundsKeepsHeight(data, domEl, rect, start, end, wh) ==
  IF ~data.config.scrollTrigger.pin
  THEN << [data EXCEPT !.scroll.start = start, !.scroll.end = end], domEl >>
  ELSE << [data EXCEPT
             !.scroll.start = start, !.scroll.end = end,
             !.scroll.pinTop =
               PinTopOf(Split(OrElse(data.config.scrollTrigger.start,
                                     DefaultStart).str), rect, wh),
             !.scroll.pinStart = start, !.scroll.pinEnd = end],
          domEl >>

\* The stores of lines 482-525, given the computed start and end:
\* <<data', dom[el]'>>.
StoreBounds(data, domEl, rect, start, end, wh) ==
  IF ~data.config.scrollTrigger.pin
  THEN << [data EXCEPT !.scroll.start = start, !.scroll.end = end], domEl >>
  ELSE << [data EXCEPT
             !.scroll.start = start, !.scroll.end = end,
             !.scroll.pinTop =
               PinTopOf(Split(OrElse(data.config.scrollTrigger.start,
                                     DefaultStart).str), rect, wh),
             !.scroll.pinStart = start, !.scroll.pinEnd = end],
          IF Truthy(data.scroll.pinSpacer)
          THEN [domEl EXCEPT
                  !.spacers[data.scroll.pinSpacer.id].height =
                    Add(Sub(end, start), rect.height)]
          ELSE domEl >>

BoundsFromStart(data, domEl, rect, start, sY, wh) ==
  StoreBounds(data, domEl, rect, start,
              CalcEnd(data.config.scrollTrigger, start, rect, sY, wh), wh)

BoundsFromRect(data, domEl, rect, sY, wh) ==
  BoundsFromStart(data, domEl, rect,
                  CalcStart(data.config.scrollTrigger, rect, sY, wh), sY, wh)

\* _calculateScrollBounds(element, data): <<data', dom[el]'>> (lines 455-526);
\* box is the element's natural box.
CalculateScrollBounds(box, data, domEl, sY, wh) ==
  BoundsFromRect(data, domEl,
                 IF Truthy(data.scroll.pinSpacer)
                 THEN SpacerRect(box, domEl.spacers[data.scroll.pinSpacer.id], sY)
                 ELSE ElementRect(box, domEl.style, sY),
                 sY, wh)

\* ------------------------------------------------ _updateScrollAnimations

\* The data object observe() creates for an element (lines 283-289), with
\* the fields later code adds to data.scroll still undefined.
NewData(config) ==
  [config |-> config,
   instance |-> Undefined,
   scroll |-> [isActive |-> FALSE, progress |-> N(0), direction |-> 1,
               lastY |-> Undefined, start |-> Undefined, end |-> Undefined,
               pinStart |-> Undefined, pinEnd |-> Undefined,
               pinTop |-> Undefined, pinLeft |-> Undefined,
               pinWidth |-> Undefined, isPinned |-> FALSE,
               pinSpacer |-> Undefined, originalStyles |-> Undefined]]

\* A call instance[method](arg), and a callback config[cb](el, dir).
Call(method, arg) == [method |-> method, arg |-> arg]

Fire(cb, dir) == [cb |-> cb, dir |-> dir]

W_seek == <<"s", "e", "e", "k">>

\* The call of `action` on the handle, if the handle has such a method.
CallIfMethod(action) ==
  IF action.str \in HandleMethods THEN << Call(action.str, Undefined) >> ELSE << >>

\* Mutant of RunToggleAction: the first name is run whatever the index.
RunToggleActionFirst(actions, index) ==
  CallIfMethod(OrElse(At(Split(actions.str), 0), Str(W_play)))

\* _runToggleAction(instance, actions, index): the calls made on the handle
\* (lines 442-447).
RunToggleAction(actions, index) ==
  CallIfMethod(OrElse(At(Split(actions.str), index), Str(W_play)))

\* if (config.toggleActions) this._runToggleAction(..., index).
Toggle(config, index) ==
  IF Truthy(config.toggleActions)
  THEN RunToggleAction(config.toggleActions, index) ELSE << >>

\* Mutant of IsActiveAt: the start boundary is excluded.
IsActiveAtStrict(y, start, end) == Gt(y, start) /\ Le(y, end)

\* isActive (line 371).
IsActiveAt(y, start, end) == Ge(y, start) /\ Le(y, end)

\* Mutants of ClampedProgress: no lower clamp; no upper clamp; the span
\* replaced by end; no start == end guard.
ClampedProgressNoFloor(y, start, end) ==
  IF Eq(end, start) THEN N(1)
  ELSE MathMin(N(1), Div(Sub(y, start), Sub(end, start)))

ClampedProgressNoCeil(y, start, end) ==
  IF Eq(end, start) THEN N(1)
  ELSE MathMax(N(0), Div(Sub(y, start), Sub(end, start)))

ClampedProgressByEnd(y, start, end) ==
  IF Eq(end, start) THEN N(1)
  ELSE MathMax(N(0), MathMin(N(1), Div(Sub(y, start), end)))

ClampedProgressNoGuard(y, start, end) ==
  MathMax(N(0), MathMin(N(1), Div(Sub(y, start), Sub(end, start))))

\* clampedProgress (lines 372-375).
ClampedProgress(y, start, end) ==
  IF Eq(end, start) THEN N(1)
  ELSE MathMax(N(0), MathMin(N(1), Div(Sub(y, start), Sub(end, start))))

\* direction (line 376).
Direction(y, lastY) == IF Gt(y, OrElse(lastY, y)) THEN 1 ELSE -1

\* Mutant of EnterLeave: the enter branch does not test wasActive.
EnterLeaveNoEdge(config, wasActive, isActive, direction) ==
  IF isActive
  THEN [fired |-> << Fire("onEnter", direction) >>,
        calls |-> IF Truthy(config.toggleActions) THEN Toggle(config, 0)
                  ELSE IF ~config.scrub THEN << Call(W_play, Undefined) >>
                  ELSE << >>]
  ELSE IF ~isActive /\ wasActive
  THEN IF direction = 1
       THEN [fired |-> << Fire("onLeave", direction) >>, calls |-> Toggle(config, 2)]
       ELSE [fired |-> << Fire("onLeaveBack", direction) >>, calls |-> Toggle(config, 3)]
  ELSE [fired |-> << >>, calls |-> << >>]

\* Mutant of EnterLeave: a scrubbed animation is played on enter as well.
EnterLeavePlaysScrubbed(config, wasActive, isActive, direction) ==
  IF isActive /\ ~wasActive
  THEN [fired |-> << Fire("onEnter", direction) >>,
        calls |-> IF Truthy(config.toggleActions) THEN Toggle(config, 0)
                  ELSE << Call(W_play, Undefined) >>]
  ELSE IF ~isActive /\ wasActive
  THEN IF direction = 1
       THEN [fired |-> << Fire("onLeave", direction) >>, calls |-> Toggle(config, 2)]
       ELSE [fired |-> << Fire("onLeaveBack", direction) >>, calls |-> Toggle(config, 3)]
  ELSE [fired |-> << >>, calls |-> << >>]

\* The enter / leave branches (lines 378-395): [fired, calls].
EnterLeave(config, wasActive, isActive, direction) ==
  IF isActive /\ ~wasActive
  THEN [fired |-> << Fire("onEnter", direction) >>,
        calls |-> IF Truthy(config.toggleActions) THEN Toggle(config, 0)
                  ELSE IF ~config.scrub THEN << Call(W_play, Undefined) >>
                  ELSE << >>]
  ELSE IF ~isActive /\ wasActive
  THEN IF direction = 1
       THEN [fired |-> << Fire("onLeave", direction) >>, calls |-> Toggle(config, 2)]
       ELSE [fired |-> << Fire("onLeaveBack", direction) >>, calls |-> Toggle(config, 3)]
  ELSE [fired |-> << >>, calls |-> << >>]

\* Mutant of EnterBack: the branch does not test the activation flags.
EnterBackUnguarded(config, wasActive, isActive, direction, storedDirection) ==
  IF direction # storedDirection /\ direction = -1
  THEN [fired |-> << Fire("onEnterBack", direction) >>, calls |-> Toggle(config, 1)]
  ELSE [fired |-> << >>, calls |-> << >>]

\* The enter-back branch (lines 396-402): [fired, calls].
EnterBack(config, wasActive, isActive, direction, storedDirection) ==
  IF isActive /\ wasActive /\ direction # storedDirection /\ direction = -1
  THEN [fired |-> << Fire("onEnterBack", direction) >>, calls |-> Toggle(config, 1)]
  ELSE [fired |-> << >>, calls |-> << >>]

\* Mutant of Scrub: the progress is passed without the duration.
ScrubProgressOnly(config, instance, clampedProgress) ==
  IF config.scrub THEN << Call(W_seek, clampedProgress) >> ELSE << >>

\* The scrub branch (lines 403-405).
Scrub(config, instance, clampedProgress) ==
  IF config.scrub
  THEN << Call(W_seek, Mul(instance.duration, clampedProgress)) >> ELSE << >>

\* Mutant of PinStep: the end of the pin range is excluded.
PinStepOpenEnd(config, scroll, style, y) ==
  IF ~config.pin THEN [isPinned |-> scroll.isPinned, style |-> style]
  ELSE IF Ge(y, scroll.pinStart) /\ Lt(y, scroll.pinEnd)
  THEN IF ~scroll.isPinned
       THEN [isPinned |-> TRUE,
             style |-> [style EXCEPT !.position = Css("fixed"),
                                     !.top = Px(scroll.pinTop),
                                     !.left = Px(scroll.pinLeft),
                                     !.width = Px(scroll.pinWidth)]]
       ELSE [isPinned |-> TRUE, style |-> style]
  ELSE IF scroll.isPinned
       THEN [isPinned |-> FALSE,
             style |-> [style EXCEPT
                          !.position = Css("absolute"),
                          !.left = Css("0"),
                          !.top = IF Lt(y, scroll.pinStart) THEN Css("0")
                                  ELSE Px(Sub(scroll.pinEnd, scroll.pinStart))]]
       ELSE [isPinned |-> FALSE, style |-> style]

\* The pin branch (lines 406-427): [isPinned, style].
PinStep(config, scroll, style, y) ==
  IF ~config.pin THEN [isPinned |-> scroll.isPinned, style |-> style]
  ELSE IF Ge(y, scroll.pinStart) /\ Le(y, scroll.pinEnd)
  THEN IF ~scroll.isPinned
       THEN [isPinned |-> TRUE,
             style |-> [style EXCEPT !.position = Css("fixed"),
                                     !.top = Px(scroll.pinTop),
                                     !.left = Px(scroll.pinLeft),
                                     !.width = Px(scroll.pinWidth)]]
       ELSE [isPinned |-> TRUE, style |-> style]
  ELSE IF scroll.isPinned
       THEN [isPinned |-> FALSE,
             style |-> [style EXCEPT
                          !.position = Css("absolute"),
                          !.left = Css("0"),
                          !.top = IF Lt(y, scroll.pinStart) THEN Css("0")
                                  ELSE Px(Sub(scroll.pinEnd, scroll.pinStart))]]
       ELSE [isPinned |-> FALSE, style |-> style]

\* The stores of lines 428-431 and what the iteration did:
\* [data, style, fired, calls].
StoreScroll(data, y, isActive, clampedProgress, direction, t1, t2, seeks, pin) ==
  [data |-> [data EXCEPT !.scroll.isPinned = pin.isPinned,
                         !.scroll.isActive = isActive,
                         !.scroll.progress = clampedProgress,
                         !.scroll.direction = direction,
                         !.scroll.lastY = y],
   style |-> pin.style,
   fired |-> t1.fired \o t2.fired,
   calls |-> t1.calls \o t2.calls \o seeks]

\* Lines 378-431 given the values computed by lines 368-376.
UpdateWith(data, style, y, isActive, clampedProgress, direction) ==
  StoreScroll(data, y, isActive, clampedProgress, direction,
    EnterLeave(data.config.scrollTrigger, data.scroll.isActive, isActive, direction),
    EnterBack(data.config.scrollTrigger, data.scroll.isActive, isActive, direction,
              data.scroll.direction),
    Scrub(data.config.scrollTrigger, data.instance, clampedProgress),
    PinStep(data.config.scrollTrigger, data.scroll, style, y))

\* One iteration of the forEach of _updateScrollAnimations (lines 366-432)
\* for an element with a scrollTrigger and an instance.
UpdateOne(data, style, y) ==
  UpdateWith(data, style, y,
             IsActiveAt(y, data.scroll.start, data.scroll.end),
             ClampedProgress(y, data.scroll.start, data.scroll.end),
             Direction(y, data.scroll.lastY))

\* The guard of line 367: the elements a pass evaluates.
Evaluated(data) ==
  data # Undefined /\ data.config.scrollTrigger # Undefined
  /\ data.instance # Undefined

\* ------------------------------------------------------------ the actions

Init ==
  /\ scrollY = N(0)
  /\ innerHeight = N(200)
  /\ layout \in Layouts
  /\ \E st \in InitialStyles :
       dom = [el \in Elements |-> [style |-> st, spacers |-> NoSpacers]]
  /\ elementMap = [el \in Elements |-> Undefined]
  /\ mapOrder = << >>
  /\ isTicking = FALSE
  /\ rafQueue = 0
  /\ listening = TRUE
  /\ registered = TRUE
  /\ ev = [el \in Elements |-> NoEval]
  /\ trace = << >>
  /\ made = [el \in Elements |-> << >>]
  /\ pending = 0
  /\ peer = NoPeer
  /\ controls = Undefined
  /\ instances = NoInstances
  /\ pinStyle = NoPinStyle
  /\ last = NoCall
  /\ syncQueue = << >>
  /\ syncLog = NoSyncs
  /\ timelines = {}

InSeq(x, seq) == \E i \in 1..Len(seq) : seq[i] = x

\* Mutant of HandleScroll: a frame is requested on every call.
HandleScrollNoFlag ==
  /\ rafQueue' = rafQueue + 1 /\ isTicking' = TRUE
  /\ pending' = IF pending < MaxPending THEN pending + 1 ELSE pending

\* _handleScroll() (lines 335-343): request a frame unless one is in flight.
HandleScroll ==
  /\ IF ~isTicking
     THEN rafQueue' = rafQueue + 1 /\ isTicking' = TRUE
     ELSE UNCHANGED <<rafQueue, isTicking>>
  /\ pending' = IF pending < MaxPending THEN pending + 1 ELSE pending

\* Store the <<data', dom[el]'>> pairs res[el] computed for every element.
StorePairs(res) ==
  /\ elementMap' = [el \in Elements |-> res[el][1]]
  /\ dom' = [el \in Elements |-> res[el][2]]

HasTrigger(config) == config.scrollTrigger # Undefined

\* After _playAnimation and the optional _createPinSpacer (lines 292-294):
\* lines 295-297 for pair = <<data, dom[el]>>.
ObserveBounds(el, pair) ==
  IF HasTrigger(pair[1].config)
  THEN CalculateScrollBounds(layout[el], pair[1], pair[2], scrollY, innerHeight)
  ELSE pair

\* The body of observe()'s forEach for one element (lines 283-297):
\* <<data', dom[el]'>>.  _playAnimation stores the timeline it builds as
\* data.instance.
ObserveOne(el, data0) ==
  ObserveBounds(el,
    IF HasTrigger(data0.config) /\ data0.config.scrollTrigger.pin
    THEN CreatePinSpacer(layout[el], data0, dom[el], scrollY)
    ELSE << data0, dom[el] >>)

\* observe(target, config) (lines 281-301).  Callers are taken not to use an
\* instance after destroy().
Observe(target, config) ==
  /\ registered
  /\ \A i \in 1..Len(target) :
       (HasTrigger(config) /\ config.scrollTrigger.pin)
         => Len(dom[target[i]].spacers) < MaxSpacers
  /\ StorePairs([el \in Elements |->
       IF InSeq(el, target)
       THEN ObserveOne(el, [NewData(config) EXCEPT !.instance = [duration |-> Duration]])
       ELSE << elementMap[el], dom[el] >>])
  /\ mapOrder' = mapOrder \o SelectSeq(target, LAMBDA el : ~InSeq(el, mapOrder))
  /\ ev' = [el \in Elements |-> IF InSeq(el, target) THEN NoEval ELSE ev[el]]
  /\ made' = [el \in Elements |->
       IF InSeq(el, target) /\ HasTrigger(config) /\ config.scrollTrigger.pin
       THEN Append(made[el], dom[el].style) ELSE made[el]]
  /\ HandleScroll
  /\ UNCHANGED <<scrollY, innerHeight, layout, listening, registered, trace>>
  /\ UNCHANGED <<peer, controls, instances, pinStyle, last,
                 syncQueue, syncLog, timelines>>

\* The window is scrolled to y: the scroll listener runs _handleScroll.
ScrollTo(y) ==
  /\ y # scrollY
  /\ scrollY' = y
  /\ IF listening THEN HandleScroll ELSE UNCHANGED <<rafQueue, isTicking, pending>>
  /\ UNCHANGED <<innerHeight, layout, dom, elementMap, mapOrder, listening,
                 registered, ev, trace, made>>
  /\ UNCHANGED <<peer, controls, instances, pinStyle, last,
                 syncQueue, syncLog, timelines>>

\* What one evaluation of el did, for the history variable ev: the position,
\* the position / activation / direction of the evaluation before it (those
\* of registration on the first one), the bounds and config it read, what
\* it stored and what it invoked.
EvalRecord(old, data, y, r) ==
  [y |-> y,
   first |-> old = NoEval,
   prevY |-> IF old = NoEval THEN Undefined ELSE old.y,
   wasActive |-> IF old = NoEval THEN FALSE ELSE old.isActive,
   prevDirection |-> IF old = NoEval THEN 1 ELSE old.direction,
   config |-> data.config.scrollTrigger,
   start |-> data.scroll.start,
   end |-> data.scroll.end,
   isActive |-> r.data.scroll.isActive,
   progress |-> r.data.scroll.progress,
   direction |-> r.data.scroll.direction,
   fired |-> r.fired,
   calls |-> r.calls]

\* Store the results res[el] of one pass (Undefined for a skipped element).
StorePass(res, y) ==
  /\ elementMap' = [el \in Elements |->
       IF res[el] = Undefined THEN elementMap[el] ELSE res[el].data]
  /\ dom' = [el \in Elements |->
       IF res[el] = Undefined THEN dom[el]
       ELSE [dom[el] EXCEPT !.style = res[el].style]]
  /\ ev' = [el \in Elements |->
       IF res[el] = Undefined THEN ev[el]
       ELSE EvalRecord(ev[el], elementMap[el], y, res[el])]

\* _updateScrollAnimations(scrollY) (lines 365-433).
UpdateScrollAnimations(y) ==
  StorePass([el \in Elements |->
               IF Evaluated(elementMap[el])
               THEN UpdateOne(elementMap[el], dom[el].style, y)
               ELSE Undefined], y)

\* The frame callback (lines 337-340).
RunFrame ==
  /\ rafQueue > 0
  /\ rafQueue' = rafQueue - 1
  /\ UpdateScrollAnimations(scrollY)
  /\ isTicking' = FALSE
  /\ pending' = 0
  /\ UNCHANGED <<scrollY, innerHeight, layout, mapOrder, listening, registered,
                 made>>
  /\ UNCHANGED <<peer, controls, instances, pinStyle, last,
                 syncQueue, syncLog, timelines>>

Frame == RunFrame /\ UNCHANGED trace

\* The recompute of one element in _handleResize (lines 351-355), given
\* its data and dom[el]: <<data', dom[el]'>>.
RecomputeOne(el, data, domEl, wh) ==
  CalculateScrollBounds(layout[el], data,
    IF Truthy(data.scroll.pinSpacer)
    THEN UpdatePinSpacer(layout[el], data, domEl, scrollY)
    ELSE domEl,
    scrollY, wh)

\* Mutant of ResizeOne: the bounds are left as they are.
ResizeOneStale(el, wh) == << elementMap[el], dom[el] >>

ResizeOne(el, wh) == RecomputeOne(el, elementMap[el], dom[el], wh)

\* _handleResize() (lines 349-358) with window.innerHeight = wh.
HandleResize(wh) ==
  /\ StorePairs([el \in Elements |->
       IF elementMap[el] # Undefined /\ HasTrigger(elementMap[el].config)
       THEN ResizeOne(el, wh)
       ELSE << elementMap[el], dom[el] >>])
  /\ HandleScroll

\* The window is resized to height wh: the resize listener runs.
Resize(wh) ==
  /\ wh # innerHeight
  /\ innerHeight' = wh
  /\ IF listening THEN HandleResize(wh)
     ELSE UNCHANGED <<elementMap, dom, rafQueue, isTicking, pending>>
  /\ UNCHANGED <<scrollY, layout, mapOrder, listening, registered, ev, trace,
                 made>>
  /\ UNCHANGED <<peer, controls, instances, pinStyle, last,
                 syncQueue, syncLog, timelines>>

\* refresh() (lines 200-203).
Refresh ==
  /\ registered
  /\ HandleResize(innerHeight)
  /\ UNCHANGED <<scrollY, innerHeight, layout, mapOrder, listening, registered,
                 ev, trace, made>>
  /\ UNCHANGED <<peer, controls, instances, pinStyle, last,
                 syncQueue, syncLog, timelines>>

RemoveAt(seq, k) == SubSeq(seq, 1, k - 1) \o SubSeq(seq, k + 1, Len(seq))

\* Mutant of DestroyOne: the margin of the element is not assigned back.
DestroyOneKeepsMargin(data, domEl) ==
  IF data # Undefined /\ Truthy(data.scroll.pinSpacer)
  THEN [style |-> [data.scroll.originalStyles EXCEPT !.margin = domEl.style.margin],
        spacers |-> RemoveAt(domEl.spacers, data.scroll.pinSpacer.id)]
  ELSE domEl

\* What destroy() does to the DOM of one element (lines 320-323): the
\* original styles are assigned back and the spacer is replaced by it.
DestroyOne(data, domEl) ==
  IF data # Undefined /\ Truthy(data.scroll.pinSpacer)
  THEN [style |-> data.scroll.originalStyles,
        spacers |-> RemoveAt(domEl.spacers, data.scroll.pinSpacer.id)]
  ELSE domEl

\* Mutant of Destroy: the instance list is emptied instead of filtered.
DestroyEmptiesList ==
  /\ registered
  /\ listening' = FALSE
  /\ registered' = FALSE
  /\ dom' = [el \in Elements |-> DestroyOne(elementMap[el], dom[el])]
  /\ elementMap' = [el \in Elements |-> Undefined]
  /\ mapOrder' = << >>
  /\ peer' = [peer EXCEPT !.registered = FALSE]
  /\ UNCHANGED <<scrollY, innerHeight, layout, isTicking, rafQueue, ev, trace,
                 made, pending, controls, instances, pinStyle, last,
                 syncQueue, syncLog, timelines>>

\* Mutant of Destroy: the element map is not cleared.
DestroyKeepsMap ==
  /\ registered
  /\ listening' = FALSE
  /\ registered' = FALSE
  /\ dom' = [el \in Elements |-> DestroyOne(elementMap[el], dom[el])]
  /\ UNCHANGED <<scrollY, innerHeight, layout, isTicking, rafQueue, ev, trace,
                 made, pending, elementMap, mapOrder>>
  /\ UNCHANGED <<peer, controls, instances, pinStyle, last,
                 syncQueue, syncLog, timelines>>

\* destroy() (lines 306-327).
Destroy ==
  /\ registered
  /\ listening' = FALSE
  /\ registered' = FALSE
  /\ dom' = [el \in Elements |-> DestroyOne(elementMap[el], dom[el])]
  /\ elementMap' = [el \in Elements |-> Undefined]
  /\ mapOrder' = << >>
  /\ UNCHANGED <<scrollY, innerHeight, layout, isTicking, rafQueue, ev, trace,
                 made, pending>>
  /\ UNCHANGED <<peer, controls, instances, pinStyle, last,
                 syncQueue, syncLog, timelines>>

\* The configs without pinning.
UnpinnedConfigs ==
  { c \in Configs : c.scrollTrigger = Undefined \/ ~c.scrollTrigger.pin }

\* The instance observing the single element e1, without pinning.
Next ==
  \/ \E target \in Targets, config \in UnpinnedConfigs :
       Observe(target, config)
  \/ \E y \in ScrollYs : ScrollTo(y)
  \/ Frame
  \/ \E wh \in ViewportHeights : Resize(wh)
  \/ Refresh
  \/ Destroy

Spec == Init /\ [][Next]_vars

\* ------------------------------------------- the monotone-scroll scenario

\* One element is observed once at the top of the page, then the window
\* only scrolls down (or is refreshed in place), and every evaluation is
\* recorded in trace.
MonoObserve(config) ==
  /\ elementMap["e1"] = Undefined
  /\ HasTrigger(config)
  /\ Observe(<<"e1">>, config)

MonoScroll(y) ==
  /\ elementMap["e1"] # Undefined
  /\ Gt(y, scrollY)
  /\ ScrollTo(y)

MonoRefresh ==
  /\ elementMap["e1"] # Undefined
  /\ Refresh

MonoFrame ==
  /\ Len(trace) < MaxEvals
  /\ RunFrame
  /\ trace' = Append(trace, [y |-> scrollY,
                              start |-> ev'["e1"].start,
                              end |-> ev'["e1"].end,
                              fired |-> ev'["e1"].fired])

MonoNext ==
  \/ \E config \in Configs : MonoObserve(config)
  \/ \E y \in ScrollYs : MonoScroll(y)
  \/ MonoRefresh
  \/ MonoFrame

SpecMono == Init /\ [][MonoNext]_vars

\* ------------------------------------------- the bounds-computation scenario

\* The instance observing e1 with start and end specifications of every
\* form: edge words, relative ends "+=" and "-=" in pixels and percent, and
\* specifications with a missing edge, an unknown edge word or a non-numeric
\* percent; on a page where e1 sits at 0 or at 800.
CalcLayouts ==
  { [e1 |-> [top |-> t, height |-> N(200), left |-> N(0), width |-> N(300)],
     e2 |-> [top |-> N(0), height |-> N(200), left |-> N(10), width |-> N(300)]]
    : t \in {N(0), N(800)} }

CalcHeights == {N(400), N(800)}

CalcScrollYs == {N(0), N(250), N(600)}

TopTop == Words(<<W_top, W_top>>)

\* Relative ends.
PlusPx(digits) == Str(<<"+", "=">> \o digits)

MinusPx(digits) == Str(<<"-", "=">> \o digits)

\* Specifications the parser has no case for.
MissingEdge == Str(W_top)

UnknownWord == Words(<<W_top, <<"f", "o", "o">>>>)

BadPercent == Words(<<W_top, <<"x", "%">>>>)

Malformed == {MissingEdge, UnknownWord, BadPercent}

RelativeTriggers ==
  { Trigger(TopTop, PlusPx(<<"5", "0", "0">>), FALSE, TRUE, Undefined),
    Trigger(TopTop, PlusPx(<<"2", "0", "0">>), FALSE, FALSE, Undefined),
    Trigger(TopTop, PlusPx(<<"5", "0", "%">>), FALSE, FALSE, Undefined),
    Trigger(TopTop, MinusPx(<<"2", "0", "0">>), FALSE, FALSE, Undefined),
    Trigger(TopTop, MinusPx(<<"5", "0", "%">>), FALSE, FALSE, Undefined) }

MalformedTriggers ==
  { Trigger(m, Undefined, FALSE, FALSE, Undefined) : m \in Malformed }
  \cup { Trigger(Undefined, m, FALSE, FALSE, Undefined) : m \in Malformed }

CalcConfigs ==
  { [scrollTrigger |-> t] :
      t \in RelativeTriggers \cup MalformedTriggers
            \cup {Trigger(Undefined, Undefined, FALSE, FALSE, Undefined)} }

CalcInit ==
  /\ scrollY = N(0)
  /\ innerHeight \in CalcHeights
  /\ layout \in CalcLayouts
  /\ \E st \in InitialStyles :
       dom = [el \in Elements |-> [style |-> st, spacers |-> NoSpacers]]
  /\ elementMap = [el \in Elements |-> Undefined]
  /\ mapOrder = << >>
  /\ isTicking = FALSE
  /\ rafQueue = 0
  /\ listening = TRUE
  /\ registered = TRUE
  /\ ev = [el \in Elements |-> NoEval]
  /\ trace = << >>
  /\ made = [el \in Elements |-> << >>]
  /\ pending = 0
  /\ peer = NoPeer
  /\ controls = Undefined
  /\ instances = NoInstances
  /\ pinStyle = NoPinStyle
  /\ last = NoCall
  /\ syncQueue = << >>
  /\ syncLog = NoSyncs
  /\ timelines = {}

CalcNext ==
  \/ \E config \in CalcConfigs : Observe(<<"e1">>, config)
  \/ \E y \in CalcScrollYs : ScrollTo(y)
  \/ Frame
  \/ \E wh \in CalcHeights : Resize(wh)
  \/ Refresh

SpecCalc == CalcInit /\ [][CalcNext]_vars

\* ------------------------------------------------------ the pin scenarios

\* Pinned triggers whose range is [100, 300] for e1 (top 100, height 200):
\* a relative end with scrub, and an absolute end.
PinTriggers ==
  { Trigger(TopTop, PlusPx(<<"2", "0", "0">>), TRUE, TRUE, Undefined),
    Trigger(TopTop, Words(<<W_bottom, W_top>>), TRUE, FALSE, Undefined) }

PinConfigs == { [scrollTrigger |-> t] : t \in PinTriggers }

\* The instance observing e1 with pinning (again, while spacers may still be
\* added), the window scrolling freely, and frames.
PinScrollNext ==
  \/ \E config \in PinConfigs : Observe(<<"e1">>, config)
  \/ \E y \in ScrollYs : ScrollTo(y)
  \/ Frame

SpecPinScroll == Init /\ [][PinScrollNext]_vars

\* The pinned triggers and the relative-end trigger without pinning.
PinOrNotConfigs ==
  PinConfigs
  \cup { [scrollTrigger |->
            Trigger(TopTop, PlusPx(<<"2", "0", "0">>), FALSE, TRUE, Undefined)] }

\* Positions before, at both ends of, and after the pin range [100, 300].
PinScrollYs == {N(0), N(100), N(300), N(400)}

\* observe() of e1, with pin only while e1 has no spacer around it.
PinObserve(config) ==
  /\ config.scrollTrigger.pin => dom["e1"].spacers = NoSpacers
  /\ Observe(<<"e1">>, config)

\* The instance observing e1 with or without pinning, the window scrolling
\* and being resized, refresh() and destroy().
PinNext ==
  \/ \E config \in PinOrNotConfigs : PinObserve(config)
  \/ \E y \in PinScrollYs : ScrollTo(y)
  \/ Frame
  \/ \E wh \in ViewportHeights : Resize(wh)
  \/ Refresh
  \/ Destroy

SpecPin == Init /\ [][PinNext]_vars

\* --------------------------------------------- the throwing-callback scenario

\* Position of an element in the iteration order of the element map.
IndexIn(el, seq) == CHOOSE i \in 1..Len(seq) : seq[i] = el

\* What the last evaluation of an element did when its callback threw.
Threw(y) == [threw |-> TRUE, y |-> y]

\* The result of a pass at y in which the first callback the iteration of
\* `thrower` invokes throws: the elements before it in iteration order are
\* evaluated; the exception leaves the forEach at the callback (lines 379,
\* 387, 391 or 398), before anything of that iteration is called or stored,
\* so the thrower and the elements after it are left as they are.
PassUntil(thrower, y) ==
  [el \in Elements |->
     IF Evaluated(elementMap[el]) /\ InSeq(el, mapOrder)
        /\ IndexIn(el, mapOrder) < IndexIn(thrower, mapOrder)
     THEN UpdateOne(elementMap[el], dom[el].style, y)
     ELSE Undefined]

\* The frame callback (lines 337-340) when a transition callback of
\* `thrower` throws: the exception propagates out of
\* _updateScrollAnimations and of the callback, so line 339
\* (this.isTicking = false) is not reached.
ThrowingFrame(thrower) ==
  /\ rafQueue > 0
  /\ InSeq(thrower, mapOrder)
  /\ Evaluated(elementMap[thrower])
  /\ UpdateOne(elementMap[thrower], dom[thrower].style, scrollY).fired # << >>
  /\ rafQueue' = rafQueue - 1
  /\ \E res \in {PassUntil(thrower, scrollY)} :
       /\ elementMap' = [el \in Elements |->
            IF res[el] = Undefined THEN elementMap[el] ELSE res[el].data]
       /\ dom' = [el \in Elements |->
            IF res[el] = Undefined THEN dom[el]
            ELSE [dom[el] EXCEPT !.style = res[el].style]]
       /\ ev' = [el \in Elements |->
            IF el = thrower THEN Threw(scrollY)
            ELSE IF res[el] = Undefined THEN ev[el]
            ELSE EvalRecord(ev[el], elementMap[el], scrollY, res[el])]
  /\ pending' = 0
  /\ UNCHANGED <<scrollY, innerHeight, layout, mapOrder, isTicking, listening,
                 registered, trace, made>>
  /\ UNCHANGED <<peer, controls, instances, pinStyle, last,
                 syncQueue, syncLog, timelines>>

\* Triggers with the default bounds and with "top top" / "bottom top".
ThrowConfigs ==
  { [scrollTrigger |-> Trigger(Undefined, Undefined, FALSE, FALSE, Undefined)],
    [scrollTrigger |-> Trigger(TopTop, Words(<<W_bottom, W_top>>), FALSE, FALSE,
                               Undefined)] }

\* The instance observing e1 and e2, whose callbacks may throw.
ThrowNext ==
  \/ \E target \in {<<"e1", "e2">>, <<"e2">>}, config \in ThrowConfigs :
       Observe(target, config)
  \/ \E y \in PinScrollYs : ScrollTo(y)
  \/ Frame
  \/ \E el \in Elements : ThrowingFrame(el)

SpecThrow == Init /\ [][ThrowNext]_vars

\* The step in which the browser runs a requested frame callback (lines
\* 337-340), whether the callback returns or throws: the only step that
\* takes a request off the queue.
FrameCallback == rafQueue > 0 /\ rafQueue' = rafQueue - 1

\* The browser runs every requested frame callback.
SpecThrowFair == Init /\ [][ThrowNext]_vars /\ WF_rafQueue(FrameCallback)

\* ------------------------------------------- the detached-element scenario

\* e1 is an element that is not in a document (el.parentNode is null); its
\* bounding rect is all zeros.  e2 is in the document.
DetachedLayouts ==
  { [e1 |-> [top |-> N(0), height |-> N(0), left |-> N(0), width |-> N(0),
             detached |-> TRUE],
     e2 |-> [top |-> N(0), height |-> N(200), left |-> N(10), width |-> N(300)]] }

\* el.parentNode === null.
IsDetached(box) == "detached" \in DOMAIN box

\* _createPinSpacer(el, data) for an element without a parent node: lines
\* 719-744 run (the spacer is built, and originalStyles, pinSpacer, pinLeft
\* and pinWidth are stored from the all-zero rect), then line 745 reads
\* insertBefore of null and throws a TypeError; lines 746-753 do not run.
CreatePinSpacerDetached(data, domEl) ==
  [data EXCEPT
     !.scroll.originalStyles = domEl.style,
     !.scroll.pinSpacer = [id |-> Len(domEl.spacers) + 1],
     !.scroll.pinLeft = N(0),
     !.scroll.pinWidth = N(0)]

\* observe(el, config) for a detached element and a pinning trigger (lines
\* 281-301): the data is put in the map (line 290), the animation is built
\* (line 292), _createPinSpacer throws at line 745 and the exception leaves
\* observe(): no bounds are computed and _handleScroll is not called.
ObserveDetached(el, config) ==
  /\ registered
  /\ IsDetached(layout[el])
  /\ HasTrigger(config) /\ config.scrollTrigger.pin
  /\ Len(made[el]) < MaxSpacers
  /\ elementMap' = [elementMap EXCEPT ![el] =
       CreatePinSpacerDetached(
         [NewData(config) EXCEPT !.instance = [duration |-> Duration]], dom[el])]
  /\ mapOrder' = IF InSeq(el, mapOrder) THEN mapOrder ELSE Append(mapOrder, el)
  /\ ev' = [ev EXCEPT ![el] = NoEval]
  /\ made' = [made EXCEPT ![el] = Append(made[el], dom[el].style)]
  /\ UNCHANGED <<scrollY, innerHeight, layout, dom, isTicking, rafQueue,
                 pending, listening, registered, trace>>
  /\ UNCHANGED <<peer, controls, instances, pinStyle, last,
                 syncQueue, syncLog, timelines>>

\* One iteration of the forEach of _updateScrollAnimations (lines 366-432)
\* for data whose start, end, pinStart and pinEnd are undefined: both
\* comparisons of line 371 are false, end === start holds (line 373), and
\* the comparisons of line 407 are false, which leads to the branch of
\* lines 417-426 that acts only on a pinned element.
UpdateUnbounded(data, style, y) ==
  StoreScroll(data, y, FALSE, N(1), Direction(y, data.scroll.lastY),
    EnterLeave(data.config.scrollTrigger, data.scroll.isActive, FALSE,
               Direction(y, data.scroll.lastY)),
    EnterBack(data.config.scrollTrigger, data.scroll.isActive, FALSE,
              Direction(y, data.scroll.lastY), data.scroll.direction),
    Scrub(data.config.scrollTrigger, data.instance, N(1)),
    [isPinned |-> data.scroll.isPinned, style |-> style])

\* _updateScrollAnimations(scrollY) when some data may have no bounds.
UpdateScrollAnimationsAny(y) ==
  StorePass([el \in Elements |->
               IF ~Evaluated(elementMap[el]) THEN Undefined
               ELSE IF elementMap[el].scroll.start = Undefined
               THEN UpdateUnbounded(elementMap[el], dom[el].style, y)
               ELSE UpdateOne(elementMap[el], dom[el].style, y)], y)

\* The frame callback (lines 337-340).
DetachedFrame ==
  /\ rafQueue > 0
  /\ rafQueue' = rafQueue - 1
  /\ UpdateScrollAnimationsAny(scrollY)
  /\ isTicking' = FALSE
  /\ pending' = 0
  /\ UNCHANGED <<scrollY, innerHeight, layout, mapOrder, listening, registered,
                 made, trace>>
  /\ UNCHANGED <<peer, controls, instances, pinStyle, last,
                 syncQueue, syncLog, timelines>>

DetachedInit ==
  /\ scrollY = N(0)
  /\ innerHeight = N(200)
  /\ layout \in DetachedLayouts
  /\ \E st \in InitialStyles :
       dom = [el \in Elements |-> [style |-> st, spacers |-> NoSpacers]]
  /\ elementMap = [el \in Elements |-> Undefined]
  /\ mapOrder = << >>
  /\ isTicking = FALSE
  /\ rafQueue = 0
  /\ listening = TRUE
  /\ registered = TRUE
  /\ ev = [el \in Elements |-> NoEval]
  /\ trace = << >>
  /\ made = [el \in Elements |-> << >>]
  /\ pending = 0
  /\ peer = NoPeer
  /\ controls = Undefined
  /\ instances = NoInstances
  /\ pinStyle = NoPinStyle
  /\ last = NoCall
  /\ syncQueue = << >>
  /\ syncLog = NoSyncs
  /\ timelines = {}

\* The instance observing the detached e1 with pinning and the attached e2
\* without.
DetachedNext ==
  \/ \E config \in PinConfigs : ObserveDetached("e1", config)
  \/ \E config \in ThrowConfigs : Observe(<<"e2">>, config)
  \/ \E y \in PinScrollYs : ScrollTo(y)
  \/ DetachedFrame

SpecDetached == DetachedInit /\ [][DetachedNext]_vars

\* ------------------------------------------------ the toggle-action scenario

W_bogus == <<"b", "o", "g", "u", "s">>

\* toggleActions strings: "pause  restart" (a blank second slot and no
\* fourth one), "none bogus reverse" (two names the handle has no method
\* for) and "restart" (one slot only).
ActionsBlank == Str(W_pause \o <<SP, SP>> \o W_restart)

ActionsUnknown == Str(JoinWords(<<W_none, W_bogus, W_reverse>>))

ActionsOne == Str(W_restart)

\* Triggers over [100, 300] for e1: with each toggleActions string (the
\* last with scrub), and without toggleActions, with and without scrub.
ToggleTriggers ==
  { Trigger(TopTop, Words(<<W_bottom, W_top>>), FALSE, FALSE, ActionsBlank),
    Trigger(TopTop, Words(<<W_bottom, W_top>>), FALSE, FALSE, ActionsUnknown),
    Trigger(TopTop, Words(<<W_bottom, W_top>>), FALSE, TRUE, ActionsOne),
    Trigger(TopTop, Words(<<W_bottom, W_top>>), FALSE, FALSE, Undefined),
    Trigger(TopTop, Words(<<W_bottom, W_top>>), FALSE, TRUE, Undefined) }

\* The instance observing e1 with these triggers, the window scrolling
\* freely, and frames.
ToggleNext ==
  \/ \E t \in ToggleTriggers : Observe(<<"e1">>, [scrollTrigger |-> t])
  \/ \E y \in ScrollYs : ScrollTo(y)
  \/ Frame

SpecToggle == Init /\ [][ToggleNext]_vars

\* ------------------------------------------------ the two-instance scenario

\* The variables of the modelled instance and of the page.
selfVars ==
  <<scrollY, innerHeight, layout, dom, elementMap, mapOrder, isTicking, rafQueue,
    listening, registered, ev, trace, made, pending>>

\* new AnimeHelper() for the second instance (lines 172-192): its listeners
\* are attached and it is pushed on AnimeHelper._instances.
ConstructPeer ==
  /\ peer = NoPeer
  /\ peer' = [registered |-> TRUE, listening |-> TRUE, elements |-> {}]
  /\ UNCHANGED selfVars
  /\ UNCHANGED <<controls, instances, pinStyle, last,
                 syncQueue, syncLog, timelines>>

\* observe(el, config) on the second instance, without pinning: el is put in
\* its elementMap with an animation handle (lines 290-292).
PeerObserve(el) ==
  /\ peer.registered
  /\ peer' = [peer EXCEPT !.elements = @ \cup {el}]
  /\ UNCHANGED selfVars
  /\ UNCHANGED <<controls, instances, pinStyle, last,
                 syncQueue, syncLog, timelines>>

\* destroy() of the second instance (lines 306-327).
PeerDestroy ==
  /\ peer.registered
  /\ peer' = [registered |-> FALSE, listening |-> FALSE, elements |-> {}]
  /\ UNCHANGED selfVars
  /\ UNCHANGED <<controls, instances, pinStyle, last,
                 syncQueue, syncLog, timelines>>

\* AnimeHelper._instances, as the set of the instances in it.
InstanceList ==
  (IF registered THEN {"self"} ELSE {}) \cup (IF peer.registered THEN {"peer"} ELSE {})

\* The handles data.instance a global control calls its method on (lines
\* 124-129): those in the elementMap of every instance in the list.
Reached ==
  { <<"self", el>> : el \in { e \in Elements :
       registered /\ elementMap[e] # Undefined /\ elementMap[e].instance # Undefined } }
  \cup { <<"peer", el>> : el \in IF peer.registered THEN peer.elements ELSE {} }

\* pauseAll(), playAll() and restartAll() (lines 123-156).
ControlAll(method) ==
  /\ controls' = [method |-> method, instances |-> InstanceList, reached |-> Reached]
  /\ UNCHANGED selfVars
  /\ UNCHANGED <<peer, instances, pinStyle, last,
                 syncQueue, syncLog, timelines>>

AllScrollYs == {N(0), N(200)}

\* Two instances on one page: the modelled one pins e1, the second observes
\* e1 or e2; either is destroyed at any time and the global controls are
\* called at any time.
AllNext ==
  \/ \E config \in PinConfigs : PinObserve(config)
  \/ \E y \in AllScrollYs : ScrollTo(y)
  \/ \E wh \in ViewportHeights : Resize(wh)
  \/ Frame
  \/ Destroy
  \/ ConstructPeer
  \/ \E el \in Elements : PeerObserve(el)
  \/ PeerDestroy
  \/ \E method \in {W_pause, W_play, W_restart} : ControlAll(method)

SpecAll == Init /\ [][AllNext]_vars

\* AnimeHelper._instances in push order: the modelled instance is
\* constructed first.
InstanceSeq ==
  (IF registered THEN << "self" >> ELSE << >>)
    \o (IF peer.registered THEN << "peer" >> ELSE << >>)

\* The loop of killAll() (lines 163-165) on the instance list: destroy() of
\* the first instance filters it out of the list (lines 311-313), until
\* the list is empty. The result is the instances destroyed, in order.
RECURSIVE KillLoop(_)
KillLoop(list) ==
  IF Len(list) = 0 THEN << >>
  ELSE << list[1] >> \o KillLoop(SelectSeq(list, LAMBDA inst : inst # list[1]))

W_killAll == <<"k", "i", "l", "l", "A", "l", "l">>

\* AnimeHelper.killAll() (lines 162-166), with destroy() (lines 306-327)
\* for each instance the loop reaches.
KillAll ==
  \E killed \in {KillLoop(InstanceSeq)} :
    /\ controls' = [method |-> W_killAll,
                    instances |-> { killed[i] : i \in 1..Len(killed) },
                    reached |-> {}]
    /\ listening' = (listening /\ ~registered)
    /\ registered' = FALSE
    /\ dom' = [el \in Elements |->
                 IF registered THEN DestroyOne(elementMap[el], dom[el]) ELSE dom[el]]
    /\ elementMap' = [el \in Elements |->
                        IF registered THEN Undefined ELSE elementMap[el]]
    /\ mapOrder' = IF registered THEN << >> ELSE mapOrder
    /\ peer' = IF peer.registered
               THEN [registered |-> FALSE, listening |-> FALSE, elements |-> {}]
               ELSE peer
    /\ UNCHANGED <<scrollY, innerHeight, layout, isTicking, rafQueue, ev, trace,
                   made, pending>>
    /\ UNCHANGED <<instances, pinStyle, last,
                 syncQueue, syncLog, timelines>>

\* Two instances on one page: the modelled one observes e1 with pinning,
\* any number of times, the second observes e1 or e2, and killAll() is
\* called at any time.
KillNext ==
  \/ \E config \in PinConfigs : Observe(<<"e1">>, config)
  \/ \E y \in AllScrollYs : ScrollTo(y)
  \/ Frame
  \/ ConstructPeer
  \/ \E el \in Elements : PeerObserve(el)
  \/ KillAll

SpecKill == Init /\ [][KillNext]_vars

\* ------------------------------- the engine-wrapping helper (line 1025 on)

\* A string whose characters the code does not inspect, and a DOM element.
Lit(w) == [lit |-> w]

El(name) == [element |-> name]

\* A JavaScript object as the set of its <<key, value>> pairs.
Obj(pairs) == [obj |-> pairs]

\* {...a, ...b} on sets of pairs; a[k]; k in a; v || {}.
Spread(a, b) == { p \in a : \A q \in b : q[1] # p[1] } \cup b

HasKey(pairs, k) == \E p \in pairs : p[1] = k

Get(pairs, k) ==
  IF HasKey(pairs, k) THEN (CHOOSE p \in pairs : p[1] = k)[2] ELSE Undefined

ObjOr(v) == IF v = Undefined THEN {} ELSE v.obj

\* this._resolveTargetsFn(targets)[0]: the selector "missing" matches
\* nothing, "box" matches the element box, an element resolves to itself.
Resolve(targets) ==
  IF targets = Lit("missing") THEN Undefined
  ELSE IF "lit" \in DOMAIN targets THEN El(targets.lit)
  ELSE targets

\* this.constructor._presets after AnimeHelper.addPreset("shake", ...) of
\* the README: the parameter object the preset function returns.
PresetNames == {"shake"}

PresetParams(name) ==
  { <<"translateX", Lit("shake")>>, <<"duration", Lit("500")>> }

\* _getPreset(preset, config) (lines 1099-1107).
V4GetPreset(preset) ==
  IF Truthy(preset) /\ preset.lit \in PresetNames
  THEN PresetParams(preset.lit) ELSE {}

\* What the engine is called with: this._animateFn(targets, params) or
\* this._timelineFn(params).
EngineCall(fn, targets, params) == [fn |-> fn, targets |-> targets, params |-> params]

\* this._scrollFn(config): the scroll observer the engine returns.
Observer(pairs) == [observer |-> pairs]

\* _createSingleAnimation(targets, config) (lines 1489-1503).
V4CreateSingleAnimation(targets, config) ==
  EngineCall("animate", targets,
    IF Truthy(config.preset) /\ config.preset.lit \in PresetNames
    THEN Spread(PresetParams(config.preset.lit), ObjOr(config.params))
    ELSE ObjOr(config.params))

\* _createScrollObserver(targets, config) (lines 1189-1213).
V4CreateScrollObserver(targets, config) ==
  IF ~Truthy(config.scrollParams) \/ Resolve(targets) = Undefined
  THEN Undefined
  ELSE Observer(Spread({ <<"target", Resolve(targets)>>, <<"container", Undefined>> },
                       config.scrollParams.obj))

\* _createScrollAnimation(animationTargets, observerTargets, config) (lines
\* 1316-1353), for a config without animationTarget and scrollContainer.
V4CreateScrollAnimation(animationTargets, observerTargets, config) ==
  IF Resolve(observerTargets) = Undefined THEN Undefined
  ELSE EngineCall("animate", animationTargets,
         Spread(Spread(ObjOr(config.params), V4GetPreset(config.preset)),
                { <<"autoplay",
                    Observer(Spread(Spread({ <<"target", Resolve(observerTargets)>>,
                                             <<"container", Undefined>> },
                                           ObjOr(config.scrollParams)),
                                    { <<"sync", Lit("true")>> }))>> }))

\* Mutant of V4PinConfig: config.type is left as the caller gave it.
V4PinConfigKeepsType(targets, config) ==
  [config EXCEPT
     !.scrollParams = Obj(Spread({ <<"target", targets>>,
                                   <<"enter", Lit("start start")>>,
                                   <<"leave", Lit("end end")>> },
                                 ObjOr(config.scrollParams)))]

\* The config after the pin branch of observe() (lines 1229-1236).
V4PinConfig(targets, config) ==
  [config EXCEPT
     !.type = Lit("scroll"),
     !.scrollParams = Obj(Spread({ <<"target", targets>>,
                                   <<"enter", Lit("start start")>>,
                                   <<"leave", Lit("end end")>> },
                                 ObjOr(config.scrollParams)))]

\* The params of the non-scroll branch (lines 1251-1255).
V4EffectiveParams(params, scrollObserver) ==
  IF scrollObserver # Undefined
  THEN Spread(ObjOr(params), { <<"autoplay", scrollObserver>> })
  ELSE ObjOr(params)

\* The branch of observe() on config.type (lines 1239-1289): the call made
\* to the engine, Undefined when none is made.
V4Dispatch(targets, config) ==
  IF config.type = Lit("scroll")
  THEN V4CreateScrollAnimation(targets, targets, config)
  ELSE IF config.type = Lit("timeline")
  THEN EngineCall("timeline", targets,
         V4EffectiveParams(config.params, V4CreateScrollObserver(targets, config)))
  ELSE V4CreateSingleAnimation(targets,
         [config EXCEPT !.params =
            Obj(V4EffectiveParams(config.params,
                                  V4CreateScrollObserver(targets, config)))])

\* Mutant of V4Register: an existing entry is kept.
V4RegisterKeepsFirst(targets, animationInstance) ==
  IF "lit" \in DOMAIN targets /\ animationInstance # Undefined
     /\ instances[targets.lit] = Undefined
  THEN [instances EXCEPT ![targets.lit] = animationInstance]
  ELSE instances

\* Lines 1291-1293: the registry after observe() produced animationInstance.
V4Register(targets, animationInstance) ==
  IF "lit" \in DOMAIN targets /\ animationInstance # Undefined
  THEN [instances EXCEPT ![targets.lit] = animationInstance]
  ELSE instances

\* AnimeHelper.get(instanceName) (lines 1089-1091).
V4Get(instanceName) == instances[instanceName]

\* _createPin(parentTarget, {}) (lines 1118-1165): the track element itself
\* is made sticky at top "0px"; its height is left alone (duration "auto").
V4CreatePin(parentTarget) ==
  IF Resolve(parentTarget) = Undefined THEN pinStyle
  ELSE [pinStyle EXCEPT ![Resolve(parentTarget).element] =
          [position |-> Lit("sticky"), top |-> Lit("0px")]]

\* The instance the engine returns for its n-th call.
Handle(n) == [id |-> n]

\* The registered timelines after observe() made this call to the engine
\* and left the registry as registry.
V4Timelines(call, registry) ==
  { h \in IF call # Undefined /\ call.fn = "timeline"
          THEN timelines \cup {Handle(last.serial + 1)}
          ELSE timelines :
      \E name \in Selectors : registry[name] = h }

\* observe(targets, config) (lines 1215-1304) given the config after the
\* pin branch and the engine call made; config.syncWith is not set.
V4ObserveWith(targets, config, call) ==
  /\ last' = [serial |-> IF call = Undefined THEN last.serial ELSE last.serial + 1,
              targets |-> targets,
              config |-> config,
              call |-> call,
              result |-> IF call = Undefined THEN Undefined
                         ELSE Handle(last.serial + 1)]
  /\ instances' = V4Register(targets, IF call = Undefined THEN Undefined
                                      ELSE Handle(last.serial + 1))
  /\ pinStyle' = IF config.pin THEN V4CreatePin(targets) ELSE pinStyle
  /\ timelines' = V4Timelines(call, instances')

V4Observe(targets, config) ==
  /\ last.serial < MaxHandles
  /\ V4ObserveWith(targets, config,
       V4Dispatch(targets,
                  IF config.pin THEN V4PinConfig(targets, config) ELSE config))
  /\ UNCHANGED selfVars
  /\ UNCHANGED <<peer, controls, syncQueue, syncLog>>

\* The targets and configs given to observe().
V4Targets == { Lit("box"), Lit("missing"), El("box") }

V4Configs ==
  [ type : { Undefined, Lit("scroll"), Lit("timeline") },
    pin : BOOLEAN,
    preset : { Undefined, Lit("shake") },
    params : { Undefined,
               Obj({ <<"duration", Lit("700")>>, <<"ease", Lit("linear")>> }) },
    scrollParams : { Undefined,
                     Obj({ <<"enter", Lit("top bottom")>> }),
                     Obj({ <<"leave", Lit("bottom top")>>,
                           <<"sync", Lit("false")>> }) } ]

HelperNext ==
  \E targets \in V4Targets, config \in V4Configs : V4Observe(targets, config)

SpecHelper == Init /\ [][HelperNext]_vars

\* ------------------------------------------------ the pin duration scenario

\* null.
Null == [null |-> TRUE]

\* s.includes(p) for a string p.
IncludesStr(s, p) ==
  \E i \in 1..(Len(s) - Len(p) + 1) : SubSeq(s, i, i + Len(p) - 1) = p

LetterChars ==
  <<"a", "b", "c", "d", "e", "f", "g", "h", "i", "j", "k", "l", "m",
    "n", "o", "p", "q", "r", "s", "t", "u", "v", "w", "x", "y", "z",
    "A", "B", "C", "D", "E", "F", "G", "H", "I", "J", "K", "L", "M",
    "N", "O", "P", "Q", "R", "S", "T", "U", "V", "W", "X", "Y", "Z">>

\* [a-z%] under the i flag.
IsUnitChar(c) == c = "%" \/ \E i \in 1..Len(LetterChars) : LetterChars[i] = c

\* The position after the run of [\d\.] that starts at position i.
RECURSIVE NumRunEnd(_, _)
NumRunEnd(s, i) ==
  IF i <= Len(s) /\ (IsDigit(s[i]) \/ s[i] = ".") THEN NumRunEnd(s, i + 1) ELSE i

\* The match of /^(\-?[\d\.]+)([a-z%]*)$/i on s, whose number run starts
\* at i0 and ends before j: null when there is none.
CssValueMatch(s, i0, j) ==
  IF j > i0 /\ \A k \in j..Len(s) : IsUnitChar(s[k])
  THEN [value |-> ParseFloat(Str(SubSeq(s, 1, j - 1))),
        unit |-> Str(SubSeq(s, j, Len(s)))]
  ELSE Null

CssValueFrom(s, i0) == CssValueMatch(s, i0, NumRunEnd(s, i0))

\* _parseCssValue(cssValue) (lines 1109-1117).
V4ParseCssValue(cssValue) ==
  IF ~IsString(cssValue) THEN Null
  ELSE CssValueFrom(cssValue.str,
                    IF Len(cssValue.str) >= 1 /\ cssValue.str[1] = "-" THEN 2 ELSE 1)

W_auto == <<"a", "u", "t", "o">>

PlusEq == <<"+", "=">>

MinusEq == <<"-", "=">>

\* Lines 1152-1158 once the remainder of the duration is parsed: the
\* destructuring of null throws, otherwise the height is `${newHeight}px`.
V4RelativeHeight(duration, parsed, currentHeight, height) ==
  IF parsed = Null THEN [threw |-> TRUE, height |-> height]
  ELSE [threw |-> FALSE,
        height |-> Px(IF IncludesStr(duration, PlusEq)
                      THEN Add(currentHeight, parsed.value)
                      ELSE Sub(currentHeight, parsed.value))]

\* Lines 1145-1164: what a string duration does to
\* trackElement.style.height, and whether the call throws.
V4PinHeight(duration, currentHeight, height) ==
  IF duration = Str(W_auto) THEN [threw |-> FALSE, height |-> height]
  ELSE IF IncludesStr(duration.str, MinusEq) \/ IncludesStr(duration.str, PlusEq)
  THEN V4RelativeHeight(duration.str,
                        V4ParseCssValue(Str(Substring(duration.str, 2))),
                        currentHeight, height)
  ELSE [threw |-> FALSE, height |-> duration]

\* Line 1119: the defaults of the destructuring.
PinDuration(pinParams) ==
  IF pinParams.duration = Undefined THEN Str(W_auto) ELSE pinParams.duration

PinStart(pinParams) ==
  IF pinParams.start = Undefined THEN Lit("0px") ELSE pinParams.start

\* The inline height _createPin has given to the element so far.
TrackHeight(name) ==
  IF pinStyle[name] = Undefined \/ "height" \notin DOMAIN pinStyle[name]
  THEN Undefined
  ELSE pinStyle[name].height

\* The styles of the track named name after lines 1140-1164.
V4PinTrack(name, pinParams, outcome) ==
  [threw |-> outcome.threw,
   style |-> [pinStyle EXCEPT ![name] =
                [position |-> Lit("sticky"), top |-> PinStart(pinParams),
                 height |-> outcome.height]]]

\* Mutant of V4CreatePinParams: the track is styled under the name given
\* without the check that it resolves.
V4CreatePinParamsUnchecked(parentTarget, pinParams, currentHeight) ==
  V4PinTrack(IF "lit" \in DOMAIN parentTarget THEN parentTarget.lit
             ELSE parentTarget.element,
             pinParams,
             V4PinHeight(PinDuration(pinParams), currentHeight,
                         TrackHeight(IF "lit" \in DOMAIN parentTarget
                                     THEN parentTarget.lit
                                     ELSE parentTarget.element)))

\* _createPin(parentTarget, pinParams) (lines 1118-1165) for pinParams
\* without target, the track having offsetHeight currentHeight.
V4CreatePinParams(parentTarget, pinParams, currentHeight) ==
  IF Resolve(parentTarget) = Undefined THEN [threw |-> FALSE, style |-> pinStyle]
  ELSE V4PinTrack(Resolve(parentTarget).element, pinParams,
                  V4PinHeight(PinDuration(pinParams), currentHeight,
                              TrackHeight(Resolve(parentTarget).element)))

\* observe(targets, {pin: true, pinParams}) (lines 1215-1304): when
\* _createPin throws, observe() throws with it after the styles assigned
\* so far.
V4ObservePinWith(targets, config, currentHeight, pinned, call) ==
  /\ pinStyle' = pinned.style
  /\ timelines' = V4Timelines(call, instances')
  /\ instances' = V4Register(targets, IF call = Undefined THEN Undefined
                                      ELSE Handle(last.serial + 1))
  /\ last' = [serial |-> IF call = Undefined THEN last.serial ELSE last.serial + 1,
              targets |-> targets,
              config |-> config,
              call |-> call,
              result |-> IF call = Undefined THEN Undefined
                         ELSE Handle(last.serial + 1),
              threw |-> pinned.threw,
              currentHeight |-> currentHeight,
              before |-> IF Resolve(targets) = Undefined THEN Undefined
                         ELSE TrackHeight(Resolve(targets).element)]

V4ObservePin(targets, pinParams, currentHeight) ==
  /\ last.serial < MaxHandles
  /\ \E config \in {[type |-> Undefined, pin |-> TRUE, preset |-> Undefined,
                     params |-> Undefined, scrollParams |-> Undefined,
                     pinParams |-> pinParams]} :
     \E pinned \in {V4CreatePinParams(targets, pinParams, currentHeight)} :
       V4ObservePinWith(targets, config, currentHeight, pinned,
         IF pinned.threw THEN Undefined
         ELSE V4Dispatch(targets, V4PinConfig(targets, config)))
  /\ UNCHANGED selfVars
  /\ UNCHANGED <<peer, controls, syncQueue, syncLog>>

\* The durations, start offsets and track heights of the scenario.
PinDurations ==
  { Undefined,
    Str(W_auto),
    Str(<<"2", "0", "0", "v", "h">>),
    Str(<<"5", "0", "0", "p", "x">>),
    Str(<<"+", "=", "2", "0", "0">>),
    Str(<<"-", "=", "1", "0", "0">>),
    Str(<<"+", "=", "5", "0", "p", "x">>),
    Str(<<"-", "=", "1", ".", "5">>),
    Str(<<"+", "=", "1", "0", "0", "v", "h">>),
    Str(<<"+", "=">>),
    Str(<<"+", "=", " ", "2", "0">>),
    Str(<<"-", "=", "a", "u", "t", "o">>) }

PinParamsSet == [ duration : PinDurations, start : { Undefined, Lit("10px") } ]

TrackHeights == { N(300) }

PinTracks == { Lit("box"), Lit("missing") }

PinDurationNext ==
  \E targets \in PinTracks, pinParams \in PinParamsSet, h \in TrackHeights :
    V4ObservePin(targets, pinParams, h)

SpecPinDuration == Init /\ [][PinDurationNext]_vars

\* ------------------------------------------------------- the sync scenario

\* Lines 1295-1301: the queue after observe() produced animationInstance.
V4Enqueue(config, animationInstance) ==
  IF Truthy(config.syncWith)
  THEN Append(syncQueue, [slave |-> animationInstance,
                          masterSelector |-> config.syncWith,
                          offset |-> config.offset])
  ELSE syncQueue

\* observe(targets, config) (lines 1215-1304) for a config without pin
\* that may carry syncWith and offset.
V4ObserveSync(targets, config) ==
  /\ last.serial < MaxHandles
  /\ Len(syncQueue) < MaxQueue
  /\ \E call \in {V4Dispatch(targets, config)} :
       /\ V4ObserveWith(targets, config, call)
       /\ syncQueue' = V4Enqueue(config, IF call = Undefined THEN Undefined
                                         ELSE Handle(last.serial + 1))
  /\ syncLog' = [syncLog EXCEPT !.fresh = FALSE]
  /\ UNCHANGED selfVars
  /\ UNCHANGED <<peer, controls>>

\* What applySyncs() does for one entry (lines 1041-1048): the call
\* master.sync(slave, offset), or the warning.
V4SyncOne(entry) ==
  IF V4Get(entry.masterSelector.lit) # Undefined
     /\ V4Get(entry.masterSelector.lit) \in timelines
  THEN [op |-> "sync", masterSelector |-> entry.masterSelector,
        master |-> V4Get(entry.masterSelector.lit),
        slave |-> entry.slave, offset |-> entry.offset]
  ELSE [op |-> "warn", masterSelector |-> entry.masterSelector,
        master |-> Undefined, slave |-> Undefined, offset |-> Undefined]

\* Mutant of ApplySyncs: the queue is not reset.
ApplySyncsKeepsQueue ==
  /\ syncLog.serial < MaxApplies
  /\ syncLog' = [serial |-> syncLog.serial + 1,
                 calls |-> [i \in 1..Len(syncQueue) |-> V4SyncOne(syncQueue[i])],
                 fresh |-> TRUE]
  /\ syncQueue' = syncQueue
  /\ UNCHANGED selfVars
  /\ UNCHANGED <<peer, controls, instances, pinStyle, last, timelines>>

\* AnimeHelper.applySyncs() (lines 1039-1051); the engine's sync() does not
\* touch the registry or the queue.
ApplySyncs ==
  /\ syncLog.serial < MaxApplies
  /\ syncLog' = [serial |-> syncLog.serial + 1,
                 calls |-> [i \in 1..Len(syncQueue) |-> V4SyncOne(syncQueue[i])],
                 fresh |-> TRUE]
  /\ syncQueue' = << >>
  /\ UNCHANGED selfVars
  /\ UNCHANGED <<peer, controls, instances, pinStyle, last, timelines>>

\* The targets and configs of the scenario: an animation or a timeline,
\* synced with a selector or not; nothing is ever registered under the
\* selector "missing".
SyncTargets == { Lit("box"), El("box") }

SyncConfigs ==
  { c \in [ type : { Undefined, Lit("timeline") },
            pin : { FALSE },
            preset : { Undefined },
            params : { Undefined },
            scrollParams : { Undefined },
            syncWith : { Undefined, Lit("box"), Lit("missing") },
            offset : { Undefined, Lit("+=100") } ] :
      c.offset # Undefined => c.syncWith # Undefined }

SyncNext ==
  \/ \E targets \in SyncTargets, config \in SyncConfigs :
       V4ObserveSync(targets, config)
  \/ ApplySyncs

SpecSync == Init /\ [][SyncNext]_vars

\* ------------------------------------------ the re-entrant callback scenario

\* The frame callback (lines 337-340) when the instance holds the single
\* element `caller` and the transition callback fired in its iteration
\* calls this.destroy(): destroy() (lines 306-327) assigns the original
\* styles back, removes the spacer and clears the map; the iteration then
\* runs on with its local `data` and `el` (the toggle action or play, the
\* scrub seek, the pin branch on the restored style, the stores), and the
\* forEach ends on the emptied map.
DestroyingFrame(caller) ==
  /\ rafQueue > 0
  /\ registered
  /\ mapOrder = << caller >>
  /\ Evaluated(elementMap[caller])
  /\ UpdateOne(elementMap[caller], dom[caller].style, scrollY).fired # << >>
  /\ rafQueue' = rafQueue - 1
  /\ isTicking' = FALSE
  /\ pending' = 0
  /\ listening' = FALSE
  /\ registered' = FALSE
  /\ elementMap' = [el \in Elements |-> Undefined]
  /\ mapOrder' = << >>
  /\ \E restored \in {DestroyOne(elementMap[caller], dom[caller])} :
     \E res \in {UpdateOne(elementMap[caller], restored.style, scrollY)} :
       /\ dom' = [dom EXCEPT ![caller] = [restored EXCEPT !.style = res.style]]
       /\ ev' = [ev EXCEPT ![caller] =
                   EvalRecord(ev[caller], elementMap[caller], scrollY, res)]
  /\ UNCHANGED <<scrollY, innerHeight, layout, trace, made>>
  /\ UNCHANGED <<peer, controls, instances, pinStyle, last,
                 syncQueue, syncLog, timelines>>

\* The frame callback when the instance holds the single element `caller`
\* and the transition callback fired in its iteration calls
\* this.observe(other, config) for an element not yet in the map, without
\* pinning: observe() puts `other` in the map with its bounds, and its
\* _handleScroll call returns at the isTicking guard; the iteration of
\* `caller` completes, and Map.prototype.forEach then visits the entry
\* added during the iteration.
ObservingFrame(caller, other, config) ==
  /\ rafQueue > 0
  /\ registered
  /\ mapOrder = << caller >>
  /\ other # caller /\ elementMap[other] = Undefined
  /\ Evaluated(elementMap[caller])
  /\ UpdateOne(elementMap[caller], dom[caller].style, scrollY).fired # << >>
  /\ HasTrigger(config) /\ ~config.scrollTrigger.pin
  /\ rafQueue' = rafQueue - 1
  /\ isTicking' = FALSE
  /\ pending' = 0
  /\ mapOrder' = << caller, other >>
  /\ \E res \in {UpdateOne(elementMap[caller], dom[caller].style, scrollY)} :
     \E added \in {ObserveOne(other, [NewData(config) EXCEPT
                                        !.instance = [duration |-> Duration]])} :
     \E visit \in {UpdateOne(added[1], added[2].style, scrollY)} :
       /\ elementMap' = [elementMap EXCEPT ![caller] = res.data,
                                           ![other] = visit.data]
       /\ dom' = [dom EXCEPT ![caller].style = res.style,
                             ![other] = [added[2] EXCEPT !.style = visit.style]]
       /\ ev' = [ev EXCEPT
                   ![caller] = EvalRecord(ev[caller], elementMap[caller], scrollY, res),
                   ![other] = EvalRecord(NoEval, added[1], scrollY, visit)]
  /\ UNCHANGED <<scrollY, innerHeight, layout, listening, registered, trace, made>>
  /\ UNCHANGED <<peer, controls, instances, pinStyle, last,
                 syncQueue, syncLog, timelines>>

\* The instance observing e1, pinned or not, whose callbacks may call
\* destroy() or observe(e2, ...).
ReentrantNext ==
  \/ \E config \in PinConfigs \cup ThrowConfigs :
       elementMap["e1"] = Undefined /\ Observe(<<"e1">>, config)
  \/ \E y \in PinScrollYs : ScrollTo(y)
  \/ Frame
  \/ DestroyingFrame("e1")
  \/ \E config \in ThrowConfigs : ObservingFrame("e1", "e2", config)

SpecReentrant == Init /\ [][ReentrantNext]_vars

\* ------------------------------------------------------------- the claims

\* The evaluated elements, and the callbacks an evaluation record fired.
Evald == { el \in Elements : ev[el] # NoEval }

Fired(e, cb) == \E k \in DOMAIN e.fired : e.fired[k].cb = cb

FiredNames(e) == [k \in DOMAIN e.fired |-> e.fired[k].cb]

\* The calls of an evaluation record other than the scrub seek.
ToggleCalls(e) == SelectSeq(e.calls, LAMBDA c : c.method # W_seek)

\* The recorded evaluations that fired cb, and the first recorded evaluation
\* whose position satisfies P.
FiredAt(cb) ==
  { i \in 1..Len(trace) : \E k \in DOMAIN trace[i].fired : trace[i].fired[k].cb = cb }

FirstWhere(P(_)) ==
  { i \in 1..Len(trace) : P(trace[i].y) /\ \A j \in 1..(i - 1) : ~P(trace[j].y) }

\* The recorded run is one of the claim C1: bounds 100 and 300 throughout,
\* first position 0, some position inside [100, 300].
RunOfC1 ==
  /\ Len(trace) > 0
  /\ trace[1].y = N(0)
  /\ \A i \in 1..Len(trace) : trace[i].start = N(100) /\ trace[i].end = N(300)
  /\ \E i \in 1..Len(trace) : Ge(trace[i].y, N(100)) /\ Le(trace[i].y, N(300))

\* C1: with start = 100 and end = 300, along every non-decreasing run of
\* evaluated positions that begins at 0 and visits [100, 300], onEnter fires
\* in exactly one evaluation, the first at a position >= 100, and onLeave in
\* exactly one, the first at a position > 300 (in none while the run has not
\* passed 300); no evaluation fires a callback twice.
C1_EnterLeaveOnce ==
  RunOfC1 =>
    /\ FiredAt("onEnter") = FirstWhere(LAMBDA y : Ge(y, N(100)))
    /\ FiredAt("onLeave") = FirstWhere(LAMBDA y : Gt(y, N(300)))
    /\ \A i \in 1..Len(trace) : \A k, m \in DOMAIN trace[i].fired :
         trace[i].fired[k].cb = trace[i].fired[m].cb => k = m

\* Witness of C1: a complete run (it ends above 300 after a repeated
\* position inside the range) with one onEnter and one onLeave.
C1_Witness ==
  /\ RunOfC1
  /\ Gt(trace[Len(trace)].y, N(300))
  /\ \E i \in 1..(Len(trace) - 1) : trace[i].y = trace[i + 1].y /\ trace[i].y = N(200)
  /\ Cardinality(FiredAt("onEnter")) = 1
  /\ Cardinality(FiredAt("onLeave")) = 1

\* C2 as stated: a transition callback fires in an evaluation if and only
\* if isActive flipped; on the first evaluation only onEnter can fire, and
\* only when the element is active.
C2_FiresIffFlip ==
  \A el \in Evald :
    LET e == ev[el]
    IN  /\ (e.fired # << >>) <=> (e.isActive # e.wasActive)
        /\ e.first => /\ \A k \in DOMAIN e.fired : e.fired[k].cb = "onEnter"
                      /\ Fired(e, "onEnter") => e.isActive

\* C2 amended: onEnter, onLeave or onLeaveBack fires in an evaluation if and
\* only if isActive flipped; onEnterBack fires only when the element was and
\* stays active; on the first evaluation only onEnter can fire, and it does
\* exactly when the element is active.
C2_EdgeFiresIffFlip ==
  \A el \in Evald :
    LET e == ev[el]
    IN  /\ (Fired(e, "onEnter") \/ Fired(e, "onLeave") \/ Fired(e, "onLeaveBack"))
             <=> (e.isActive # e.wasActive)
        /\ Fired(e, "onEnterBack") => e.isActive /\ e.wasActive
        /\ e.first => /\ \A k \in DOMAIN e.fired : e.fired[k].cb = "onEnter"
                      /\ Fired(e, "onEnter") <=> e.isActive

\* Witness of C2: a later evaluation in which isActive flipped to false and
\* onLeave fired.
C2_Witness ==
  \E el \in Evald :
    ~ev[el].first /\ ev[el].wasActive /\ ~ev[el].isActive /\ Fired(ev[el], "onLeave")

\* C3 as stated: after an evaluation at y < start, isActive is false and
\* progress is 0, for any bounds.
C3_BeforeStart ==
  \A el \in Evald :
    Lt(ev[el].y, ev[el].start) => ~ev[el].isActive /\ ev[el].progress = N(0)

\* C3 amended: after an evaluation at y < start with start < end, isActive
\* is false and progress is 0.
C3_BeforeStartOrdered ==
  \A el \in Evald :
    (Lt(ev[el].y, ev[el].start) /\ Lt(ev[el].start, ev[el].end))
      => ~ev[el].isActive /\ ev[el].progress = N(0)

\* Witness of C3: an evaluation below the start of ordered bounds.
C3_Witness ==
  \E el \in Evald :
    Lt(ev[el].y, ev[el].start) /\ Lt(ev[el].start, ev[el].end)
    /\ ev[el].progress = N(0)

\* C4 as stated: after an evaluation at y > end, isActive is false and
\* progress is 1, for any bounds.
C4_AfterEnd ==
  \A el \in Evald :
    Gt(ev[el].y, ev[el].end) => ~ev[el].isActive /\ ev[el].progress = N(1)

\* C4 amended: after an evaluation at y > end with start <= end, isActive is
\* false and progress is 1.
C4_AfterEndOrdered ==
  \A el \in Evald :
    (Gt(ev[el].y, ev[el].end) /\ Le(ev[el].start, ev[el].end))
      => ~ev[el].isActive /\ ev[el].progress = N(1)

\* Witness of C4: an evaluation above the end of strictly ordered bounds.
C4_Witness ==
  \E el \in Evald :
    Gt(ev[el].y, ev[el].end) /\ Lt(ev[el].start, ev[el].end)
    /\ ev[el].progress = N(1)

\* The progress an evaluation of data at position y stores.
ProgressAt(data, style, y) == UpdateOne(data, style, y).data.scroll.progress

\* C5: after an evaluation at y with start <= y <= end and start # end the
\* stored progress is (y - start) / (end - start); and of two evaluations of
\* an element at positions y1 <= y2 of that range, the one at y1 stores a
\* progress <= the one at y2.
C5_ProgressLinear ==
  /\ \A el \in Evald :
       (Le(ev[el].start, ev[el].y) /\ Le(ev[el].y, ev[el].end)
        /\ ev[el].start # ev[el].end)
         => /\ Mul(ev[el].progress, Sub(ev[el].end, ev[el].start))
                 = Sub(ev[el].y, ev[el].start)
            /\ ev[el].progress = Div(Sub(ev[el].y, ev[el].start),
                                     Sub(ev[el].end, ev[el].start))
  /\ \A el \in Elements : Evaluated(elementMap[el]) =>
       \A y1, y2 \in ScrollYs :
         (Le(elementMap[el].scroll.start, y1) /\ Le(y1, y2)
          /\ Le(y2, elementMap[el].scroll.end))
           => Le(ProgressAt(elementMap[el], dom[el].style, y1),
                 ProgressAt(elementMap[el], dom[el].style, y2))

\* Witness of C5: an evaluation strictly inside the range, with a progress
\* strictly between 0 and 1.
C5_Witness ==
  \E el \in Evald :
    /\ Lt(ev[el].start, ev[el].y) /\ Lt(ev[el].y, ev[el].end)
    /\ Lt(N(0), ev[el].progress) /\ Lt(ev[el].progress, N(1))

\* C6: when start == end every evaluation stores progress 1, whatever the
\* position.
C6_DegenerateProgress ==
  \A el \in Evald : Eq(ev[el].start, ev[el].end) => ev[el].progress = N(1)

\* Witness of C6: an evaluation below the common start and end.
C6_Witness ==
  \E el \in Evald :
    Eq(ev[el].start, ev[el].end) /\ Lt(ev[el].y, ev[el].start)
    /\ ev[el].progress = N(1)

\* C7: in every evaluation after the first, the direction stored and passed
\* to the callbacks is 1 when the position is above the previous
\* evaluation's and -1 when it is below.
C7_DirectionFollowsScroll ==
  \A el \in Evald :
    LET e == ev[el]
    IN  ~e.first =>
          /\ Gt(e.y, e.prevY) =>
               e.direction = 1 /\ \A k \in DOMAIN e.fired : e.fired[k].dir = 1
          /\ Lt(e.y, e.prevY) =>
               e.direction = -1 /\ \A k \in DOMAIN e.fired : e.fired[k].dir = -1

\* C8: an evaluation at the position of the previous one leaves the stored
\* direction unchanged, and the first evaluation stores direction 1.
C8_TieKeepsDirection ==
  \A el \in Evald :
    LET e == ev[el]
    IN  /\ e.first => e.direction = 1
        /\ (~e.first /\ Eq(e.y, e.prevY)) => e.direction = e.prevDirection

\* C9: onEnterBack fires, and toggle action 1 runs, only in an evaluation
\* of an element that was and stays active, whose position moved up while
\* the direction stored before was downward.
C9_EnterBackOnlyOnReversal ==
  \A el \in Evald :
    LET e == ev[el]
    IN  Fired(e, "onEnterBack") =>
          /\ ~e.first /\ e.wasActive /\ e.isActive
          /\ Lt(e.y, e.prevY)
          /\ e.prevDirection = 1

\* C10: when an element goes from active to inactive, onLeave alone fires
\* and toggle action 2 runs if the position increased, and onLeaveBack
\* alone fires and toggle action 3 runs if it decreased.
C10_LeaveFollowsScroll ==
  \A el \in Evald :
    LET e == ev[el]
    IN  (~e.first /\ e.wasActive /\ ~e.isActive) =>
          /\ Gt(e.y, e.prevY) =>
               FiredNames(e) = << "onLeave" >> /\ ToggleCalls(e) = Toggle(e.config, 2)
          /\ Lt(e.y, e.prevY) =>
               FiredNames(e) = << "onLeaveBack" >> /\ ToggleCalls(e) = Toggle(e.config, 3)

\* The seek calls of an evaluation record.
SeekCalls(e) == SelectSeq(e.calls, LAMBDA c : c.method = W_seek)

\* C11 as stated: every evaluation of an element with scrub calls seek
\* exactly once, with duration x the progress it stores, whether or not a
\* transition fired; with duration 1000, start 0 and end 500 the evaluation
\* at 250 calls seek(250).
C11_ScrubSeeksEveryFrame ==
  \A el \in Evald :
    ev[el].config.scrub =>
      /\ SeekCalls(ev[el]) = << Call(W_seek, Mul(Duration, ev[el].progress)) >>
      /\ (ev[el].start = N(0) /\ ev[el].end = N(500) /\ ev[el].y = N(250))
           => SeekCalls(ev[el]) = << Call(W_seek, N(250)) >>

\* C11 amended: every evaluation of an element with scrub calls seek exactly
\* once, with duration x the progress it stores, whether or not a transition
\* fired; with duration 1000, start 0 and end 500 the evaluation at 250
\* stores progress 1/2 and calls seek(500).
C11_ScrubSeeksDurationTimesProgress ==
  \A el \in Evald :
    ev[el].config.scrub =>
      /\ SeekCalls(ev[el]) = << Call(W_seek, Mul(Duration, ev[el].progress)) >>
      /\ (ev[el].start = N(0) /\ ev[el].end = N(500) /\ ev[el].y = N(250))
           => SeekCalls(ev[el]) = << Call(W_seek, N(500)) >>

\* Witness of C11: the evaluation at 250 between 0 and 500, in which no
\* transition fired and seek was called once.
C11_Witness ==
  \E el \in Evald :
    /\ ev[el].config.scrub /\ Duration = N(1000)
    /\ ev[el].start = N(0) /\ ev[el].end = N(500) /\ ev[el].y = N(250)
    /\ ev[el].fired = << >>
    /\ ev[el].calls = << Call(W_seek, N(500)) >>

\* The evaluated elements whose trigger pins them.
EvaldPinned == { el \in Evald : ev[el].config.pin }

C13_UnpinAnchor ==
  \A el \in EvaldPinned :
    /\ Lt(ev[el].y, elementMap[el].scroll.pinStart)
         => /\ dom[el].style.position = Css("absolute")
            /\ dom[el].style.top = Css("0")
    /\ Gt(ev[el].y, elementMap[el].scroll.pinEnd)
         => /\ dom[el].style.position = Css("absolute")
            /\ dom[el].style.top =
                 Px(Sub(elementMap[el].scroll.pinEnd, elementMap[el].scroll.pinStart))

\* The elements that carry a pin spacer of their current registration.
WithSpacer ==
  { el \in Elements :
      elementMap[el] # Undefined /\ Truthy(elementMap[el].scroll.pinSpacer) }

\* C14: destroy() leaves every element that carries a pin spacer with the
\* inline position, top, left, width and margin it had when that spacer was
\* created, whatever evaluations, resizes and refreshes happened in between,
\* and takes that spacer out of the document.
C14_DestroyRestoresSnapshot ==
  [][ (registered /\ ~registered') =>
        \A el \in WithSpacer :
          /\ dom'[el].style = made[el][Len(made[el])]
          /\ dom'[el].spacers = SubSeq(dom[el].spacers, 1, Len(dom[el].spacers) - 1)
    ]_vars

\* Witness of C14: e1 was pinned once, evaluated inside its range, the
\* window was resized, and after destroy() it has its original style and no
\* spacer.
C14_Witness ==
  /\ ~registered
  /\ Len(made["e1"]) = 1
  /\ ev["e1"] # NoEval /\ ev["e1"].config.pin /\ ev["e1"].isActive
  /\ innerHeight = N(400)
  /\ dom["e1"].style = made["e1"][1]
  /\ dom["e1"].spacers = << >>

\* C15: every element has at most one pin spacer in the document at any
\* time, also when it is observed again with pin enabled; after destroy()
\* no spacer made for an element remains and the element has the inline
\* style it had before its first spacer was made.
C15_AtMostOneSpacer ==
  \A el \in Elements :
    /\ Len(dom[el].spacers) <= 1
    /\ ~registered =>
         /\ dom[el].spacers = << >>
         /\ made[el] # << >> => dom[el].style = made[el][1]

\* start, end, pinStart, pinEnd, pinTop and the spacer height of a
\* <<data, dom[el]>> pair.
BoundsOf(pair) ==
  [start |-> pair[1].scroll.start, end |-> pair[1].scroll.end,
   pinStart |-> pair[1].scroll.pinStart, pinEnd |-> pair[1].scroll.pinEnd,
   pinTop |-> pair[1].scroll.pinTop,
   height |-> IF Truthy(pair[1].scroll.pinSpacer)
              THEN pair[2].spacers[pair[1].scroll.pinSpacer.id].height
              ELSE Undefined]

\* The recompute of _handleResize applied to a <<data, dom[el]>> pair.
Recomputed(el, pair) == RecomputeOne(el, pair[1], pair[2], innerHeight)

\* C16: recomputing the bounds of an element twice in a row, with the
\* geometry, viewport height and scroll position unchanged, yields the same
\* start, end, pinStart, pinEnd, pinTop and spacer height as recomputing them
\* once, for pinned and unpinned elements and absolute and relative ends;
\* and a recompute right after registration (no scroll, resize or frame in
\* between) yields the bounds of registration.
C16_RecomputeIdempotent ==
  \A el \in Elements :
    (elementMap[el] # Undefined /\ HasTrigger(elementMap[el].config))
      => /\ BoundsOf(Recomputed(el, ResizeOne(el, innerHeight)))
              = BoundsOf(ResizeOne(el, innerHeight))
         /\ (pending = 1 /\ elementMap[el].scroll.lastY = Undefined)
              => BoundsOf(ResizeOne(el, innerHeight))
                   = BoundsOf(<<elementMap[el], dom[el]>>)

\* Witness of C16: a pinned element whose bounds were recomputed by a resize
\* or refresh (its margin is the original one again) and are those of
\* registration: start 100, end 300, spacer height 400.
C16_Witness ==
  \E el \in WithSpacer :
    /\ dom[el].style.margin = Css("")
    /\ BoundsOf(<<elementMap[el], dom[el]>>).start = N(100)
    /\ BoundsOf(<<elementMap[el], dom[el]>>).end = N(300)
    /\ BoundsOf(<<elementMap[el], dom[el]>>).height = N(400)

\* The elements registered with a scroll trigger.
Triggered ==
  { el \in Elements :
      elementMap[el] # Undefined /\ HasTrigger(elementMap[el].config) }

\* The end specification and the computed start and end of an element.
EndSpec(el) == elementMap[el].config.scrollTrigger.end

StartOf(el) == elementMap[el].scroll.start

EndOf(el) == elementMap[el].scroll.end

\* C17: a relative end "+=N" resolves to start + N and "+=P%" to
\* start + P/100 x viewport height: with start 800, "+=200" gives 1000, and
\* "+=50%" with a viewport height of 800 gives 1200.
C17_RelativeEnd ==
  \A el \in Triggered :
    /\ EndSpec(el) = PlusPx(<<"2", "0", "0">>)
         => /\ EndOf(el) = Add(StartOf(el), N(200))
            /\ StartOf(el) = N(800) => EndOf(el) = N(1000)
    /\ EndSpec(el) = PlusPx(<<"5", "0", "0">>) => EndOf(el) = Add(StartOf(el), N(500))
    /\ EndSpec(el) = PlusPx(<<"5", "0", "%">>)
         => /\ EndOf(el) = Add(StartOf(el), Mul(Q(50, 100), innerHeight))
            /\ (StartOf(el) = N(800) /\ innerHeight = N(800)) => EndOf(el) = N(1200)

\* Witness of C17: start 800, viewport height 800 and end "+=50%" give
\* end 1200.
C17_Witness ==
  \E el \in Triggered :
    /\ EndSpec(el) = PlusPx(<<"5", "0", "%">>)
    /\ StartOf(el) = N(800) /\ innerHeight = N(800)
    /\ EndOf(el) = N(1200)

\* C18: a relative end "-=N" resolves to start - N and "-=P%" to
\* start - P/100 x viewport height, a defined number.
C18_RelativeEndMinus ==
  \A el \in Triggered :
    /\ EndSpec(el) = MinusPx(<<"2", "0", "0">>)
         => EndOf(el) = Sub(StartOf(el), N(200))
    /\ EndSpec(el) = MinusPx(<<"5", "0", "%">>)
         => EndOf(el) = Sub(StartOf(el), Mul(Q(50, 100), innerHeight))

\* The start of "top bottom" and the end of "bottom top" for an element now.
FallbackStart(el) ==
  ParsePos(DefaultStart, ElementRect(layout[el], dom[el].style, scrollY),
           scrollY, innerHeight)

FallbackEnd(el) ==
  ParsePos(DefaultEnd, ElementRect(layout[el], dom[el].style, scrollY),
           scrollY, innerHeight)

\* C19: for a start or end specification with a missing second edge, an
\* unknown edge word or a non-numeric percent, the computed start is the one
\* of "top bottom" and the computed end the one of "bottom top".
C19_MalformedFallsBack ==
  \A el \in Triggered :
    /\ elementMap[el].config.scrollTrigger.start \in Malformed
         => StartOf(el) = FallbackStart(el)
    /\ EndSpec(el) \in Malformed => EndOf(el) = FallbackEnd(el)

\* C20: however many scroll events, observe() calls and refresh() calls
\* arrive between two frames, one frame callback (one evaluate pass) is
\* pending: no step requests a frame while one is pending, and at most one
\* is ever pending; as soon as one such event arrived, one is pending.
C20_ScrollEventsCoalesce ==
  [][ /\ rafQueue' <= 1
      /\ rafQueue > 0 => rafQueue' <= rafQueue
      /\ pending' >= 1 => rafQueue' = 1
    ]_vars

\* Witness of C20: two or more events arrived since the last frame ran and
\* exactly one frame callback is pending.
C20_Witness ==
  /\ listening
  /\ pending = 2
  /\ isTicking /\ rafQueue = 1

\* C21: every evaluation reads the start and end that a recompute with the
\* viewport height of the latest resize gives: no frame evaluates an
\* element against bounds older than the latest resize, load or refresh(),
\* also when the frame was requested before that event.
C21_EvaluatesFreshBounds ==
  [][ rafQueue' < rafQueue =>
        \A el \in Elements :
          Evaluated(elementMap[el]) =>
            /\ ev'[el].start = BoundsOf(Recomputed(el, <<elementMap[el], dom[el]>>)).start
            /\ ev'[el].end = BoundsOf(Recomputed(el, <<elementMap[el], dom[el]>>)).end
    ]_vars

\* Witness of C21: an element evaluated before with the viewport height 200
\* (start -100 for "top bottom") was evaluated again after a resize to 400,
\* against the start -300 of that height.
C21_Witness ==
  \E el \in Evald :
    /\ ~ev[el].first
    /\ ev[el].config.start = Undefined
    /\ innerHeight = N(400)
    /\ ev[el].start = N(-300)

HasThrown(el) == ev[el] # NoEval /\ "threw" \in DOMAIN ev[el]

\* C23: when a transition callback of one element throws during a pass, all
\* other registered elements are still evaluated in that pass, and the
\* dispatcher is not left blocked: the in-flight flag is set only while a
\* frame callback is pending.
C23_FailureIsolated ==
  /\ isTicking => rafQueue > 0
  /\ \A el \in Elements :
       HasThrown(el) =>
         \A o \in Elements \ {el} :
           Evaluated(elementMap[o]) =>
             ~HasThrown(o) /\ ev[o] # NoEval /\ ev[o].y = ev[el].y

\* C24: when observe() registers a pinned element that has no parent node,
\* no pinSpacer is recorded for it, its styles stay as they were, and no
\* later evaluation pins it.
C24_ParentlessPinIsNoOp ==
  \A el \in Elements :
    (IsDetached(layout[el]) /\ elementMap[el] # Undefined
     /\ elementMap[el].config.scrollTrigger.pin) =>
      /\ elementMap[el].scroll.pinSpacer = Undefined
      /\ dom[el].style \in InitialStyles
      /\ ~elementMap[el].scroll.isPinned

\* The slot of each transition callback.
SlotOf(cb) ==
  CASE cb = "onEnter" -> 0
    [] cb = "onEnterBack" -> 1
    [] cb = "onLeave" -> 2
    [] cb = "onLeaveBack" -> 3

\* For each toggleActions string, the methods expected to be called for the
\* slots 0..3: the name in the slot, play for a blank or missing slot,
\* nothing for a name the handle has no method for.
ExpectedBySlot ==
  { [actions |-> ActionsBlank,
     expect |-> << <<W_pause>>, <<W_play>>, <<W_restart>>, <<W_play>> >>],
    [actions |-> ActionsUnknown,
     expect |-> << << >>, << >>, <<W_reverse>>, <<W_play>> >>],
    [actions |-> ActionsOne,
     expect |-> << <<W_restart>>, <<W_play>>, <<W_play>>, <<W_play>> >>] }

ExpectedMethods(actions, slot) ==
  (CHOOSE row \in ExpectedBySlot : row.actions = actions).expect[slot + 1]

MethodsOf(calls) == [k \in DOMAIN calls |-> calls[k].method]

\* C25: for a toggleActions string and a slot 0..3, the action run is the
\* slot's space-separated name; play when the slot is blank or missing;
\* nothing is called when the name is not a method of the handle.
C25_ToggleSlot ==
  \A el \in Evald :
    Truthy(ev[el].config.toggleActions) =>
      IF ev[el].fired = << >>
      THEN ToggleCalls(ev[el]) = << >>
      ELSE /\ Len(ev[el].fired) = 1
           /\ MethodsOf(ToggleCalls(ev[el])) =
                ExpectedMethods(ev[el].config.toggleActions,
                                SlotOf(ev[el].fired[1].cb))
           /\ \A k \in DOMAIN ev[el].calls :
                ev[el].calls[k].method # W_seek => ev[el].calls[k].arg = Undefined

\* An enter-back (slot 1) with "none bogus reverse": nothing is called.
C25_Witness ==
  \E el \in Evald :
    /\ ev[el].config.toggleActions = ActionsUnknown
    /\ Fired(ev[el], "onEnterBack")
    /\ ev[el].calls = << >>

\* C26: on an enter transition, with toggleActions only the action of slot 0
\* runs; without toggleActions and without scrub the animation is played;
\* with scrub and no toggleActions neither play nor a toggle action is
\* called and the only call is the seek.
C26_EnterRunsOneAction ==
  \A el \in Evald :
    Fired(ev[el], "onEnter") =>
      /\ MethodsOf(ToggleCalls(ev[el])) =
           IF Truthy(ev[el].config.toggleActions)
           THEN ExpectedMethods(ev[el].config.toggleActions, 0)
           ELSE IF ~ev[el].config.scrub THEN <<W_play>> ELSE << >>
      /\ ev[el].config.scrub => MethodsOf(SeekCalls(ev[el])) = <<W_seek>>
      /\ ~ev[el].config.scrub => SeekCalls(ev[el]) = << >>

\* An enter with scrub and no toggleActions: the seek is the only call.
C26_Witness ==
  \E el \in Evald :
    /\ ev[el].config.scrub /\ ev[el].config.toggleActions = Undefined
    /\ Fired(ev[el], "onEnter")
    /\ MethodsOf(ev[el].calls) = <<W_seek>>

\* C27: destroy() takes the instance out of the instance list, detaches
\* its listeners and empties its element map, and leaves the other
\* instance and the elements not in its map as they are; after it, no
\* scroll or resize event schedules a frame for the instance and
\* pauseAll / playAll / restartAll reach only the handles of the other
\* instance.
C27_DestroyDetaches ==
  [][ /\ (registered /\ ~registered') =>
           /\ peer' = peer
           /\ \A el \in Elements : elementMap[el] = Undefined => dom'[el] = dom[el]
      /\ ~registered' =>
           /\ ~listening'
           /\ \A el \in Elements : elementMap'[el] = Undefined
      /\ ~registered => (rafQueue' <= rafQueue /\ (isTicking' => isTicking))
      /\ (~registered /\ controls' # controls) =>
           /\ controls'.instances = IF peer.registered THEN {"peer"} ELSE {}
           /\ controls'.reached =
                { <<"peer", el>> : el \in IF peer.registered THEN peer.elements ELSE {} }
    ]_vars

\* The instance pinned e1 and was destroyed, the window has been scrolled
\* since, and the last global control found only the second instance and
\* reached its handle on e1.
C27_Witness ==
  /\ ~registered /\ made["e1"] # << >>
  /\ scrollY # N(0) /\ rafQueue = 0
  /\ controls # Undefined /\ controls.instances = {"peer"}
  /\ controls.reached = { <<"peer", "e1">> }

\* The last observe() call on the helper made a call to the engine.
Called == "call" \in DOMAIN last /\ last.call # Undefined

\* C28: when observe() names the preset shake (duration 500) and gives
\* params with duration 700, the engine receives duration 700, for every
\* animation type including scroll and pinned animations.
C28_ParamsOverridePreset ==
  (Called /\ last.call.fn = "animate"
   /\ last.config.preset = Lit("shake") /\ last.config.params # Undefined) =>
     Get(last.call.params, "duration") = Lit("700")

\* What the caller's scrollParams give for key k, or the default.
CallerScrollParam(k, default) ==
  IF last.config.scrollParams # Undefined /\ HasKey(last.config.scrollParams.obj, k)
  THEN Get(last.config.scrollParams.obj, k) ELSE default

\* The scroll observer the last engine call got as autoplay.
LastObserver == Get(last.call.params, "autoplay").observer

\* C29: observe() with pin: true on a target that resolves creates the
\* animation through the scroll path, whatever config.type and scrollParams
\* are: the engine's animate is called with a scroll observer as autoplay
\* whose sync is true and whose enter and leave are "start start" and
\* "end end" unless the caller's scrollParams give them.
C29_PinForcesScroll ==
  ("call" \in DOMAIN last /\ last.config.pin /\ last.targets # Lit("missing")) =>
    /\ last.call # Undefined
    /\ last.call.fn = "animate"
    /\ HasKey(last.call.params, "autoplay")
    /\ Get(LastObserver, "sync") = Lit("true")
    /\ Get(LastObserver, "enter") = CallerScrollParam("enter", Lit("start start"))
    /\ Get(LastObserver, "leave") = CallerScrollParam("leave", Lit("end end"))

\* A pinned observe with type timeline and scrollParams giving leave and
\* sync: false went through the scroll path.
C29_Witness ==
  /\ Called /\ last.config.pin /\ last.targets = Lit("box")
  /\ last.config.type = Lit("timeline")
  /\ last.config.scrollParams # Undefined
  /\ Get(ObjOr(last.config.scrollParams), "sync") = Lit("false")
  /\ last.call.fn = "animate"
  /\ Get(LastObserver, "sync") = Lit("true")
  /\ Get(LastObserver, "enter") = Lit("start start")
  /\ Get(LastObserver, "leave") = Lit("bottom top")

\* C30: an observe() with a string target that returns an instance makes
\* AnimeHelper.get(target) return that new instance and changes no other
\* entry; an observe() with a non-string target, or one that returns no
\* instance, changes no entry.
C30_GetReturnsLastNamed ==
  [][ last' # last =>
        IF "lit" \in DOMAIN last'.targets /\ last'.result # Undefined
        THEN /\ instances'[last'.targets.lit] = last'.result
             /\ \A n \in Selectors : V4Get(n) # last'.result
             /\ \A n \in Selectors \ {last'.targets.lit} :
                  instances'[n] = V4Get(n)
        ELSE \A n \in Selectors : instances'[n] = V4Get(n)
    ]_vars

\* The entry of "box" was replaced by the second instance, and the third
\* observe(), on an element, left it.
C30_Witness ==
  /\ "targets" \in DOMAIN last
  /\ last.targets = El("box") /\ last.result = Handle(3)
  /\ V4Get("box") = Handle(2)

\* C33: a pinned element's isPinned flag is true if and only if its inline
\* position is "fixed", after any sequence of observe, frames, scrolls and
\* resize / refresh events; in particular, once a frame has run after a
\* resize or refresh, an element whose flag is set is fixed.
C33_PinnedIffFixed ==
  \A el \in Elements :
    (elementMap[el] # Undefined /\ HasTrigger(elementMap[el].config)
     /\ elementMap[el].config.scrollTrigger.pin /\ rafQueue = 0) =>
      (elementMap[el].scroll.isPinned <=> dom[el].style.position = Css("fixed"))

\* C35: the in-flight flag isTicking is true if and only if exactly one
\* frame callback of the instance is pending, and there are never two
\* pending frame callbacks.
C35_TickingIffOnePending ==
  /\ rafQueue <= 1
  /\ isTicking <=> rafQueue = 1

\* The registered elements whose trigger pins, with a recorded spacer.
PinnedWithSpacer ==
  { el \in Elements :
      /\ elementMap[el] # Undefined /\ HasTrigger(elementMap[el].config)
      /\ elementMap[el].config.scrollTrigger.pin
      /\ Truthy(elementMap[el].scroll.pinSpacer) }

\* C38: after every bounds recompute of a pinned element (at registration
\* and at each resize / refresh) pinStart equals start, pinEnd equals end
\* and the height of the spacer is end - start plus the natural height of
\* the element.
C38_SpacerSpansPinRange ==
  \A el \in PinnedWithSpacer :
    /\ elementMap[el].scroll.pinStart = elementMap[el].scroll.start
    /\ elementMap[el].scroll.pinEnd = elementMap[el].scroll.end
    /\ dom[el].spacers[elementMap[el].scroll.pinSpacer.id].height =
         Add(Sub(elementMap[el].scroll.end, elementMap[el].scroll.start),
             layout[el].height)

\* After a resize to 400 the range of e1 (height 200) is [100, 300] and the
\* spacer is 400 high.
C38_Witness ==
  /\ innerHeight = N(400) /\ "e1" \in PinnedWithSpacer
  /\ elementMap["e1"].scroll.pinStart = N(100)
  /\ elementMap["e1"].scroll.pinEnd = N(300)
  /\ dom["e1"].spacers[elementMap["e1"].scroll.pinSpacer.id].height = N(400)

\* C39: in a single evaluation of one element at most one of the four
\* transition callbacks is invoked and at most one toggle action is run.
C39_AtMostOneTransition ==
  \A el \in Evald :
    /\ Len(ev[el].fired) <= 1
    /\ Len(ToggleCalls(ev[el])) <= 1

\* A leave-back evaluation with toggleActions: one callback, one action.
C39_Witness ==
  \E el \in Evald :
    /\ Truthy(ev[el].config.toggleActions)
    /\ FiredNames(ev[el]) = << "onLeaveBack" >>
    /\ Len(ToggleCalls(ev[el])) = 1

\* Every registered element with a trigger was evaluated, by a pass that
\* completed, at the current scroll position.
PassedAtCurrent ==
  \A el \in Elements :
    Evaluated(elementMap[el]) =>
      ev[el] # NoEval /\ ~HasThrown(el) /\ ev[el].y = scrollY

\* C36: under fairness of the frame callback, every scroll event and every
\* observe() on a live instance (a _handleScroll call not yet followed by a
\* frame) is eventually followed by an evaluate pass at a scroll position
\* read no earlier than the event.
C36_EventLeadsToPass == (pending > 0) ~> (pending = 0 /\ PassedAtCurrent)

\* C34: in the step that tears an element down (destroy(), also when a
\* callback calls it during a pass) the element is left with the styles
\* destroy() gives it, and in the step that registers an element
\* (observe(), also when a callback calls it during a pass) the element is
\* not evaluated.
C34_PassUsesSnapshot ==
  [][ \A el \in Elements :
        /\ (elementMap[el] # Undefined /\ elementMap'[el] = Undefined) =>
             dom'[el].style = IF Truthy(elementMap[el].scroll.pinSpacer)
                              THEN elementMap[el].scroll.originalStyles
                              ELSE dom[el].style
        /\ (elementMap[el] = Undefined /\ elementMap'[el] # Undefined) =>
             ev'[el] = NoEval
    ]_vars

\* C37: when killAll() returns, it has destroyed every live instance, the
\* instance list is empty, every instance has an empty element map and no
\* listeners, and every element that was pinned has no spacer left and the
\* inline style it had before its first spacer was made.
C37_KillAllTearsDown ==
  [][ (controls' # controls /\ controls'.method = W_killAll) =>
        /\ controls'.instances = InstanceList
        /\ ~registered' /\ ~peer'.registered
        /\ ~listening' /\ ~peer'.listening
        /\ peer'.elements = {}
        /\ \A el \in Elements :
             /\ elementMap'[el] = Undefined
             /\ made[el] # << >> =>
                  (dom'[el].spacers = << >> /\ dom'[el].style = made[el][1])
    ]_vars

\* The last call was observe() with pin on a track that resolves.
PinCall == "threw" \in DOMAIN last /\ Resolve(last.targets) # Undefined

\* The length N of a relative duration in pixels: a bare number and px
\* count pixels, vh counts hundredths of the viewport height.
RelativeAmount(parsed) ==
  IF parsed = Null THEN NaN
  ELSE IF parsed.unit = Str(<<"v", "h">>)
  THEN Div(Mul(parsed.value, innerHeight), N(100))
  ELSE parsed.value

\* The height the duration asks for.
ExpectedHeight(duration, currentHeight, before) ==
  IF duration = Str(W_auto) THEN before
  ELSE IF StartsWith(duration.str, PlusEq)
  THEN Px(Add(currentHeight,
              RelativeAmount(V4ParseCssValue(Str(Substring(duration.str, 2))))))
  ELSE IF StartsWith(duration.str, MinusEq)
  THEN Px(Sub(currentHeight,
              RelativeAmount(V4ParseCssValue(Str(Substring(duration.str, 2))))))
  ELSE duration

\* C32: observe() with pin never throws for a relative duration, and the
\* track's inline height is its current height plus N for "+=N", minus N
\* for "-=N", the given value for another duration, and unchanged for
\* "auto".
C32_RelativeDuration ==
  PinCall =>
    /\ ~last.threw
    /\ TrackHeight(Resolve(last.targets).element) =
         ExpectedHeight(PinDuration(last.config.pinParams),
                        last.currentHeight, last.before)

\* C31: observe() with pin: true on a track selector that matches nothing
\* does not throw, whatever the pin duration, makes no engine call, returns
\* no instance, registers nothing and changes no style; an observe() call
\* that follows it on a track that resolves, with a duration that parses,
\* returns a new instance and registers it under its selector.
C31_UnresolvedPinIsNoOp ==
  [][ /\ (last' # last /\ last'.targets = Lit("missing")) =>
           /\ ~last'.threw
           /\ last'.call = Undefined /\ last'.result = Undefined
           /\ last'.serial = last.serial
           /\ instances' = instances
           /\ pinStyle' = pinStyle
           /\ dom' = dom
      /\ (last' # last /\ last.serial > 0 /\ last.targets = Lit("missing")
          /\ last'.targets = Lit("box") /\ ~last'.threw) =>
           /\ last'.result = Handle(last.serial + 1)
           /\ instances'["box"] = last'.result
           /\ pinStyle'["box"].position = Lit("sticky")
    ]_vars

\* Witness of C31: after an instance was made for the track box, observe()
\* with pin on the unresolved selector, with the duration "+=", has left
\* the registry and the styles as they were.
C31_Witness ==
  /\ PinCall = FALSE /\ "threw" \in DOMAIN last
  /\ last.targets = Lit("missing")
  /\ last.config.pinParams.duration = Str(PlusEq)
  /\ ~last.threw /\ last.call = Undefined
  /\ last.serial = 1
  /\ instances = [NoInstances EXCEPT !["box"] = Handle(1)]
  /\ pinStyle["missing"] = Undefined
  /\ pinStyle["box"] # Undefined

\* C40: applySyncs() handles the queued entries once each, in the order
\* they were queued, and leaves the queue empty: an entry whose master
\* selector has a timeline registered at the time of the call gets the one
\* call master.sync(slave, offset), an entry whose master selector has
\* nothing registered gets the warning and the entries after it are still
\* handled; applySyncs() called again with no observe() in between makes
\* no call.
C40_ApplySyncsDrainsQueue ==
  [][ syncLog'.serial # syncLog.serial =>
        /\ syncQueue' = << >>
        /\ Len(syncLog'.calls) = Len(syncQueue)
        /\ \A i \in 1..Len(syncQueue) :
             /\ syncLog'.calls[i].masterSelector = syncQueue[i].masterSelector
             /\ instances[syncQueue[i].masterSelector.lit] \in timelines =>
                  /\ syncLog'.calls[i].op = "sync"
                  /\ syncLog'.calls[i].master =
                       instances[syncQueue[i].masterSelector.lit]
                  /\ syncLog'.calls[i].slave = syncQueue[i].slave
                  /\ syncLog'.calls[i].offset = syncQueue[i].offset
             /\ instances[syncQueue[i].masterSelector.lit] = Undefined =>
                  syncLog'.calls[i].op = "warn"
        /\ syncLog.fresh => syncLog'.calls = << >>
        /\ instances' = instances
    ]_vars

\* Witness of C40: the first applySyncs() found two entries, warned for the
\* first, whose master selector had nothing registered, and then synced the
\* second instance with the timeline registered under box.
C40_Witness ==
  /\ syncLog.serial = 1 /\ syncLog.fresh
  /\ syncQueue = << >>
  /\ Len(syncLog.calls) = 2
  /\ syncLog.calls[1].op = "warn"
  /\ syncLog.calls[1].masterSelector = Lit("missing")
  /\ instances["missing"] = Undefined
  /\ syncLog.calls[2] = [op |-> "sync", masterSelector |-> Lit("box"),
                         master |-> Handle(1), slave |-> Handle(2),
                         offset |-> Lit("+=100")]

====
